---- MODULE Spec2Model ----
(***************************************************************************)
(* Model of the Afrikoop backend (afrikoop-backend/core): the registration *)
(* ledger (event_register_view), the token service (Token.create,          *)
(* require_token, login_view, logout_view), account registration           *)
(* (register_user_view), the contact form (contact_view), the content      *)
(* views (mission, cleaning service, events list, events page), the        *)
(* translation store (i18n_view, i18n_namespace_view) and the store tables *)
(* they use.                                                               *)
(* Every ORM call is one store step; the store runs in autocommit mode     *)
(* (settings.py sets no ATOMIC_REQUESTS), so concurrent requests           *)
(* interleave between any two store steps.                                 *)
(***************************************************************************)
EXTENDS Integers, Sequences, FiniteSets, TLC

\* ---------------------------------------------------------------- bounds
\* number of request slots (concurrent or successive HTTP requests)
NumReq == 2
\* largest capacity an event of the initial store carries
MaxCapacity == 1
\* length of a generated key (stands for the default length=40)
KeyLength == 2
\* largest number of Event rows the events list is served from
MaxEvents == 3
\* ticks of the clock per second: updated_at has a finer grain than the
\* whole seconds an ETag carries
TicksPerSecond == 2
\* the last tick of the clock
MaxTick == 3
\* largest number of features and of gallery images of the cleaning page
MaxFeatures == 2
MaxGallery == 4

\* ------------------------------------------------------- text as sequences
\* A text is a sequence of one-character strings, so that startswith,
\* slicing, strip and replace are computed as the code computes them.
Prefix == <<"T", "o", "k", "e", "n", " ">>

StartsWith(s, p) == Len(s) >= Len(p) /\ SubSeq(s, 1, Len(p)) = p

Drop(s, n) == SubSeq(s, n + 1, Len(s))

RECURSIVE LStrip(_)
LStrip(s) == IF s # <<>> /\ Head(s) = " " THEN LStrip(Tail(s)) ELSE s

RECURSIVE RStrip(_)
RStrip(s) ==
    IF s # <<>> /\ s[Len(s)] = " " THEN RStrip(SubSeq(s, 1, Len(s) - 1)) ELSE s

\* str.strip()
Strip(s) == RStrip(LStrip(s))

\* str.replace(old, ''): every non-overlapping occurrence, left to right
RECURSIVE ReplaceAll(_, _)
ReplaceAll(s, old) ==
    IF Len(s) < Len(old) THEN s
    ELSE IF StartsWith(s, old) THEN ReplaceAll(Drop(s, Len(old)), old)
    ELSE <<Head(s)>> \o ReplaceAll(Tail(s), old)

\* ------------------------------------------------------------------- keys
KeyAlphabet == {"a", "b"}

\* Token.generate_key(length): the strings it can return
generate_key(length) == [1..length -> KeyAlphabet]

KeyPool == generate_key(KeyLength)

\* the key made of one repeated character
K(c) == [i \in 1..KeyLength |-> c]

\* ----------------------------------------------------------------- inputs
Methods == {"POST", "GET"}

\* a key that differs from K("a") and K("b")
MixedKey == [i \in 1..KeyLength |-> IF i = 1 THEN "a" ELSE "b"]

\* Authorization header values presented by clients: missing, the exact
\* "Token <key>" for three keys, one with blanks around the key, one with
\* the prefix in the wrong case and one without the blank of the prefix.
Headers ==
    {<<>>,
     Prefix \o K("a"), Prefix \o K("b"), Prefix \o MixedKey,
     Prefix \o <<" ">> \o K("a") \o <<" ">>,
     <<"t", "o", "k", "e", "n", " ">> \o K("a"),
     <<"T", "o", "k", "e", "n">> \o K("a")}

\* usernames as sent in the JSON body (before .strip())
UsernameInputs == {<<>>, <<"a">>, <<" ", "a">>, <<"z">>}

PasswordInputs == {"", "pw", "bad"}

\* event ids a URL can carry: the stored events and one unknown id
EventIdInputs == {1, 2, 3}

\* JSON values: a string [t |-> "string"] with its text, null
\* [t |-> "null"], an array [t |-> "array"], or an object with its members
\* as a set of <<name, value>> pairs
Str(text) == [t |-> "string", v |-> text]

Object(members) == [t |-> "object", members |-> members]

\* request bodies: no bytes at all, bytes that are not UTF-8, text that is
\* not JSON, and the text of a JSON value
Unparsed == {[t |-> "empty"], [t |-> "not_utf8"], [t |-> "malformed"]}

Json(value) == [t |-> "json", value |-> value]

\* bodies sent to login_view
LoginBodies ==
    Unparsed \cup
    {Json([t |-> "array"]),
     Json(Object({<<"password", Str("pw")>>})),
     Json(Object({<<"username", [t |-> "null"]>>,
                  <<"password", Str("pw")>>}))}
    \cup {Json(Object({<<"username", Str(u)>>, <<"password", Str(p)>>})) :
            u \in UsernameInputs, p \in PasswordInputs}

\* the body of a registration
Registration(username, email, password) ==
    Json(Object({<<"username", Str(username)>>, <<"email", Str(email)>>,
                 <<"password", Str(password)>>}))

\* bodies sent to register_user_view: new and taken usernames and addresses,
\* blank and missing members, a null username
RegisterBodies ==
    Unparsed \cup
    {Json([t |-> "array"]),
     Registration(<<"c">>, <<"c", "@", "x">>, "pw"),
     Registration(<<"d">>, <<" ">> \o <<"c", "@", "x">>, "pw"),
     Registration(<<"c">>, <<"d", "@", "x">>, "pw"),
     Registration(<<" ", "a">>, <<"c", "@", "x">>, "pw"),
     Registration(<<"c">>, <<"a", "@", "x">>, "pw"),
     Registration(<<" ">>, <<"c", "@", "x">>, "pw"),
     Registration(<<"c">>, <<"c", "@", "x">>, ""),
     Json(Object({<<"username", Str(<<"c">>)>>,
                  <<"password", Str("pw")>>})),
     Json(Object({<<"username", [t |-> "null"]>>,
                  <<"email", Str(<<"c", "@", "x">>)>>,
                  <<"password", Str("pw")>>})),
     Json(Object({<<"username", Str(<<"c">>)>>,
                  <<"email", Str(<<"c", "@", "x">>)>>,
                  <<"password", [t |-> "null"]>>}))}

\* the body of a contact form
Contact(name, email, message) ==
    Json(Object({<<"name", Str(name)>>, <<"email", Str(email)>>,
                 <<"message", Str(message)>>}))

\* bodies sent to contact_view
ContactBodies ==
    Unparsed \cup
    {Json([t |-> "array"]),
     Contact(<<"n">>, <<"n", "@", "x">>, <<"h", "i">>),
     Contact(<<" ", "n">>, <<"n", "@", "x">>, <<"h", "i", " ">>),
     Contact(<<"n">>, <<"n", "@", "x">>, <<" ">>),
     Json(Object({<<"name", Str(<<"n">>)>>, <<"message", Str(<<"h">>)>>})),
     Json(Object({<<"name", Str(<<"n">>)>>, <<"email", [t |-> "null"]>>,
                  <<"message", Str(<<"h">>)>>}))}

\* ------------------------------------------------------------------ state
VARIABLES
    users,          \* auth_user rows: [id, username, email, password]
    tokens,         \* core_token rows: [key, user]
    issued,         \* every key generate_key has returned so far
    events,         \* core_event rows: id -> the row; a capacity <<>> is NULL
    registrations,  \* core_eventregistration rows: [id, user, event]
    contact_messages,   \* core_contactmessage rows, in insertion order
    next_id,        \* next auto-increment id of core_eventregistration
    req,            \* the requests: inputs, position, locals, response
    now,            \* the clock timezone.now() reads, in ticks
    mission_pages,  \* core_missionpage rows, in primary-key order
    cleaning_pages, \* core_cleaningservicepage rows with features and gallery
    events_page_settings,   \* core_eventspagesettings rows
    strings,        \* core_translatablestring rows
    site_text       \* core_sitetextsettings rows

\* the tables and the clock of the content views
content == <<now, mission_pages, cleaning_pages, events_page_settings,
             strings, site_text>>

vars == <<users, tokens, issued, events, registrations, contact_messages,
          next_id, req, content>>

Slots == 1..NumReq

IdleReq ==
    [kind |-> "none", pc |-> "idle", method |-> "", header |-> <<>>,
     event_id |-> 0, body |-> <<>>, username |-> <<>>, email |-> <<>>,
     password |-> "",
     user |-> 0, capacity |-> <<>>, count |-> 0, key |-> <<>>,
     status |-> 0, detail |-> "", inserted |-> 0, after |-> {}]

\* the requests that had been answered when a request starts
Done == {r \in Slots : req[r].pc = "done"}

\* a slot starts only after the slot before it has started
CanStart(r) ==
    /\ req[r].pc = "idle"
    /\ IF r > 1 THEN req[r - 1].pc # "idle" ELSE TRUE

\* return JsonResponse({'detail': msg}, status=st)
Answer(q, st, msg) == [q EXCEPT !.pc = "done", !.status = st, !.detail = msg]

Respond(r, st, msg) == Answer(req[r], st, msg)

\* ------------------------------------------------------ code as operators
\* Token.objects.get(key=key): the rows with that key (key is the primary key)
TokenRows(toks, key) == {t \in toks : t.key = key}

\* require_token with a prefix test that ignores the letters' case
require_token_anycase(header, toks) ==
    IF ~(Len(header) >= Len(Prefix) /\ header[Len(Prefix)] = " ")
    THEN [ok |-> FALSE, status |-> 401, user |-> 0,
          detail |-> "Authentication credentials were not provided."]
    ELSE LET key == Strip(Drop(header, Len(Prefix)))
         IN  IF TokenRows(toks, key) = {}
             THEN [ok |-> FALSE, status |-> 401, user |-> 0,
                   detail |-> "Invalid token."]
             ELSE [ok |-> TRUE, status |-> 0, detail |-> "",
                   user |-> (CHOOSE t \in TokenRows(toks, key) : TRUE).user]

\* require_token that swallows Token.DoesNotExist and calls the view anyway
require_token_unchecked(header, toks) ==
    IF ~StartsWith(header, Prefix)
    THEN [ok |-> FALSE, status |-> 401, user |-> 0,
          detail |-> "Authentication credentials were not provided."]
    ELSE LET key == Strip(Drop(header, Len(Prefix)))
         IN  [ok |-> TRUE, status |-> 0, detail |-> "",
              user |-> IF TokenRows(toks, key) = {} THEN 0
                       ELSE (CHOOSE t \in TokenRows(toks, key) : TRUE).user]

\* require_token.wrapper up to the call of view_func: the 401 answer, or
\* the user the request is handed to the view with
require_token(header, toks) ==
    IF ~StartsWith(header, Prefix)
    THEN [ok |-> FALSE, status |-> 401, user |-> 0,
          detail |-> "Authentication credentials were not provided."]
    ELSE LET key == Strip(Drop(header, Len(Prefix)))
         IN  IF TokenRows(toks, key) = {}
             THEN [ok |-> FALSE, status |-> 401, user |-> 0,
                   detail |-> "Invalid token."]
             ELSE [ok |-> TRUE, status |-> 0, detail |-> "",
                   user |-> (CHOOSE t \in TokenRows(toks, key) : TRUE).user]

\* event.registrations.count()
RegistrationCount(regs, event) == Cardinality({g \in regs : g.event = event})

\* is_full with > for >=
is_full_strict(capacity, count) == capacity # <<>> /\ count > capacity[1]

\* Event.is_full, on the capacity of the loaded row and the count read
is_full(capacity, count) == capacity # <<>> /\ count >= capacity[1]

\* available_slots without the floor at zero
available_slots_unfloored(capacity, count) ==
    IF capacity = <<>> THEN <<>> ELSE <<capacity[1] - count>>

\* Event.available_slots
available_slots(capacity, count) ==
    IF capacity = <<>> THEN <<>>
    ELSE <<IF capacity[1] - count > 0 THEN capacity[1] - count ELSE 0>>

\* an exists() that filters on the event only through the wrong user
RegistrationExists_never(regs, user, event) ==
    \E g \in regs : g.user = 0 /\ g.event = event

\* EventRegistration.objects.filter(user=..., event=...).exists()
RegistrationExists(regs, user, event) ==
    \E g \in regs : g.user = user /\ g.event = event

\* the table without the unique constraint
unique_together_absent(regs, user, event) == TRUE

\* EventRegistration.Meta.unique_together: may this row be inserted?
unique_together(regs, user, event) ==
    ~ \E g \in regs : g.user = user /\ g.event = event


\* a parser without the empty-body test and the except clause: what is not
\* JSON is no dict
parse_request_body_unguarded(body) ==
    IF body.t = "json" THEN body.value ELSE [t |-> "error"]

\* parse_request_body: the body decoded and loaded, and {} when the body is
\* empty or when decoding or json.loads raises
parse_request_body(body) ==
    IF body.t = "empty" THEN Object({})
    ELSE IF body.t \in {"not_utf8", "malformed"} THEN Object({})
    ELSE body.value

\* data.get(name, default) of a dict
get(data, name, default) ==
    IF \E m \in data.members : m[1] = name
    THEN (CHOOSE m \in data.members : m[1] = name)[2]
    ELSE default

\* whether data.get(name, '').strip() can be evaluated: data is a dict and
\* the value is a string (anything else raises AttributeError)
CanStrip(data, name) ==
    /\ data.t = "object"
    /\ get(data, name, Str(<<>>)).t = "string"

\* data.get(name, '').strip()
Stripped(data, name) == Strip(get(data, name, Str(<<>>)).v)

\* the truth value of a string or None
Truthy(value, empty) == value.t = "string" /\ value.v # empty

\* django.contrib.auth.hashers.make_password: the stored form of a password
\* (the salt is left out)
make_password(password) == <<"pbkdf2_sha256", password>>

\* django.contrib.auth.hashers.check_password
check_password(password, encoded) == encoded = make_password(password)

\* django.contrib.auth.authenticate (the external credential store): the
\* ids of the users the pair is accepted for
authenticate(us, username, password) ==
    {u.id : u \in {v \in us : /\ v.username = username
                              /\ check_password(password, v.password)}}

\* Token.create without the delete
delete_tokens_of_nothing(toks, user) == toks

\* Token.create, first statement: cls.objects.filter(user=user).delete()
delete_tokens_of(toks, user) == {t \in toks : t.user # user}

\* Token.create, last statement: cls.objects.create(key=key, user=user)
insert_token(toks, key, user) == toks \cup {[key |-> key, user |-> user]}

\* logout_view: the key it computes from the Authorization header
logout_key(header) == Strip(ReplaceAll(header, Prefix))

\* a logout that deletes nothing
delete_token_nothing(toks, key) == toks

\* logout_view: Token.objects.filter(key=key).delete()
delete_token(toks, key) == toks \ TokenRows(toks, key)

\* ------------------------------------------- POST /events/{id}/register/
\* the wrapper in front of a view that checks no method
Protected_any_method(q, view_pc) ==
    LET a == require_token(q.header, tokens)
    IN  IF ~a.ok THEN Answer(q, a.status, a.detail)
        ELSE [q EXCEPT !.user = a.user, !.pc = view_pc]

\* A request arrives at a route behind @require_token: the wrapper runs
\* (its token lookup is the request's first store step), and when it calls
\* the view, the view's method check.  q holds the request's inputs.
Protected(q, view_pc) ==
    LET a == require_token(q.header, tokens)
    IN  IF ~a.ok THEN Answer(q, a.status, a.detail)
        ELSE IF q.method # "POST"
        THEN [Answer(q, 405, "Method not allowed.") EXCEPT !.user = a.user]
        ELSE [q EXCEPT !.user = a.user, !.pc = view_pc]

\* a request to event_register_view: require_token and the method check
RegisterRequest(r) ==
    /\ CanStart(r)
    /\ \E h \in Headers, m \in Methods, e \in EventIdInputs :
          req' = [req EXCEPT ![r] =
                    Protected([IdleReq EXCEPT !.kind = "register",
                                              !.header = h, !.method = m,
                                              !.event_id = e, !.after = Done],
                              "get_event")]
    /\ UNCHANGED <<contact_messages, content, users, tokens, issued, events,
                   registrations, next_id>>

\* Event.objects.get(pk=event_id)
GetEvent(r) ==
    /\ req[r].pc = "get_event"
    /\ req' = [req EXCEPT ![r] =
            IF req[r].event_id \notin DOMAIN events
            THEN Respond(r, 404, "Event not found.")
            ELSE [req[r] EXCEPT !.pc = "is_full",
                                !.capacity = events[req[r].event_id].capacity]]
    /\ UNCHANGED <<contact_messages, content, users, tokens, issued, events,
                   registrations, next_id>>

\* event.is_full(): the count query runs only when capacity is set
IsFull(r) ==
    /\ req[r].pc = "is_full"
    /\ LET n == IF req[r].capacity = <<>> THEN 0
                ELSE RegistrationCount(registrations, req[r].event_id)
       IN  req' = [req EXCEPT ![r] =
                IF is_full(req[r].capacity, n)
                THEN [Respond(r, 400, "Event is full.") EXCEPT !.count = n]
                ELSE [req[r] EXCEPT !.pc = "exists", !.count = n]]
    /\ UNCHANGED <<contact_messages, content, users, tokens, issued, events,
                   registrations, next_id>>

\* EventRegistration.objects.filter(...).exists()
Exists(r) ==
    /\ req[r].pc = "exists"
    /\ req' = [req EXCEPT ![r] =
            IF RegistrationExists(registrations, req[r].user, req[r].event_id)
            THEN Respond(r, 400, "Already registered.")
            ELSE [req[r] EXCEPT !.pc = "insert"]]
    /\ UNCHANGED <<contact_messages, content, users, tokens, issued, events,
                   registrations, next_id>>

\* an insert that replaces the registrations the user already holds
create_registration_replacing(regs, id, user, event) ==
    {g \in regs : g.user # user}
        \cup {[id |-> id, user |-> user, event |-> event]}

\* EventRegistration.objects.create(user=request.user, event=event): the
\* table after the INSERT
create_registration(regs, id, user, event) ==
    regs \cup {[id |-> id, user |-> user, event |-> event]}

\* EventRegistration.objects.create(...): the INSERT either passes the
\* unique constraint, or raises IntegrityError, which the view does not
\* catch (the request ends as a 500)
Insert(r) ==
    /\ req[r].pc = "insert"
    /\ IF unique_together(registrations, req[r].user, req[r].event_id)
       THEN /\ registrations' = create_registration(
                    registrations, next_id, req[r].user, req[r].event_id)
            /\ next_id' = next_id + 1
            /\ req' = [req EXCEPT ![r] =
                    [Respond(r, 201, "Registered successfully.")
                        EXCEPT !.inserted = 1]]
       ELSE /\ req' = [req EXCEPT ![r] = Respond(r, 500, "IntegrityError")]
            /\ UNCHANGED <<registrations, next_id>>
    /\ UNCHANGED <<contact_messages, content, users, tokens, issued, events>>


\* ------------------------------------------------------ POST /auth/login/
\* a request to login_view, up to and including authenticate()
LoginRequest(r, bodies) ==
    /\ CanStart(r)
    /\ \E b \in bodies, m \in Methods :
          LET q == [IdleReq EXCEPT !.kind = "login", !.body = b,
                                   !.method = m, !.after = Done]
              data == parse_request_body(b)
          IN  req' = [req EXCEPT ![r] =
                IF m # "POST"
                THEN Answer(q, 405, "Method not allowed.")
                ELSE IF ~CanStrip(data, "username")
                THEN Answer(q, 500, "AttributeError")
                ELSE
                LET name == Stripped(data, "username")
                    password == get(data, "password", Str(""))
                    p == [q EXCEPT !.username = name]
                IN  IF name = <<>> \/ ~Truthy(password, "")
                    THEN Answer(p, 400,
                                "Username and password are required.")
                    ELSE
                    LET found == authenticate(users, name, password.v)
                        a == [p EXCEPT !.password = password.v]
                    IN  IF found = {}
                        THEN Answer(a, 401, "Invalid credentials.")
                        ELSE [a EXCEPT !.pc = "create_delete",
                                       !.user = CHOOSE i \in found : TRUE]]
    /\ UNCHANGED <<contact_messages, content, users, tokens, issued, events,
                   registrations, next_id>>

\* Token.create: delete the user's tokens
CreateDelete(r) ==
    /\ req[r].pc = "create_delete"
    /\ tokens' = delete_tokens_of(tokens, req[r].user)
    /\ req' = [req EXCEPT ![r].pc = "create_insert"]
    /\ UNCHANGED <<contact_messages, content, users, issued, events,
                   registrations, next_id>>

\* Token.create: generate_key() and the INSERT; login_view answers 200 with
\* the key and register_user_view 201.  A key of 40 characters from
\* secrets.choice is taken never to repeat: generate_key returns a key it
\* has not returned before.
CreateInsert(r) ==
    /\ req[r].pc = "create_insert"
    /\ \E k \in generate_key(KeyLength) \ issued :
          /\ tokens' = insert_token(tokens, k, req[r].user)
          /\ issued' = issued \cup {k}
          /\ req' = [req EXCEPT ![r] =
                [Respond(r, IF req[r].kind = "register_user" THEN 201
                            ELSE 200, "") EXCEPT !.key = k]]
    /\ UNCHANGED <<contact_messages, content, users, events, registrations,
                   next_id>>

\* ----------------------------------------------------- POST /auth/logout/
\* a request to logout_view, with its Authorization header among the given
\* ones: require_token and the method check
LogoutRequest(r, headers) ==
    /\ CanStart(r)
    /\ \E h \in headers, m \in Methods :
          req' = [req EXCEPT ![r] =
                    Protected([IdleReq EXCEPT !.kind = "logout",
                                              !.header = h, !.method = m,
                                              !.after = Done],
                              "logout_delete")]
    /\ UNCHANGED <<contact_messages, content, users, tokens, issued, events,
                   registrations, next_id>>

\* logout_view after the method check: delete the token, answer 200
LogoutDelete(r) ==
    /\ req[r].pc = "logout_delete"
    /\ tokens' = delete_token(tokens, logout_key(req[r].header))
    /\ req' = [req EXCEPT ![r] = Respond(r, 200, "Logged out.")]
    /\ UNCHANGED <<contact_messages, content, users, issued, events,
                   registrations, next_id>>

\* --------------------------------------------------- POST /auth/register/
\* User.objects.filter(username=username).exists()
username_exists(us, username) == \E u \in us : u.username = username

\* User.objects.filter(email=email).exists()
email_exists(us, email) == \E u \in us : u.email = email

\* the unique constraint of auth_user.username; the email column has none
unique_username(us, username) == \A u \in us : u.username # username

\* the id the next auth_user row gets (rows are never deleted here)
next_user_id(us) == Cardinality(us) + 1

\* a request to register_user_view, up to and including the username query
RegisterUserRequest(r, bodies) ==
    /\ CanStart(r)
    /\ \E b \in bodies, m \in Methods :
          LET q == [IdleReq EXCEPT !.kind = "register_user", !.body = b,
                                   !.method = m, !.after = Done]
              data == parse_request_body(b)
          IN  req' = [req EXCEPT ![r] =
                IF m # "POST"
                THEN Answer(q, 405, "Method not allowed.")
                ELSE IF ~CanStrip(data, "username") \/ ~CanStrip(data, "email")
                THEN Answer(q, 500, "AttributeError")
                ELSE
                LET username == Stripped(data, "username")
                    email == Stripped(data, "email")
                    password == get(data, "password", Str(""))
                    p == [q EXCEPT !.username = username, !.email = email]
                IN  IF username = <<>> \/ email = <<>>
                       \/ ~Truthy(password, "")
                    THEN Answer(p, 400,
                            "Username, email and password are required.")
                    ELSE IF username_exists(users, username)
                    THEN Answer(p, 400, "Username already exists.")
                    ELSE [p EXCEPT !.password = password.v,
                                   !.pc = "email_exists"]]
    /\ UNCHANGED <<contact_messages, content, users, tokens, issued, events,
                   registrations, next_id>>

\* User.objects.filter(email=email).exists()
EmailExists(r) ==
    /\ req[r].pc = "email_exists"
    /\ req' = [req EXCEPT ![r] =
            IF email_exists(users, req[r].email)
            THEN Respond(r, 400, "Email already exists.")
            ELSE [req[r] EXCEPT !.pc = "user_insert"]]
    /\ UNCHANGED <<contact_messages, content, users, tokens, issued, events,
                   registrations, next_id>>

\* User.objects.create(...): the INSERT either passes the unique constraint
\* of the username, or raises IntegrityError, which the view does not
\* catch (the request ends as a 500); then Token.create(user) runs
UserInsert(r) ==
    /\ req[r].pc = "user_insert"
    /\ IF unique_username(users, req[r].username)
       THEN /\ users' = users \cup
                    {[id |-> next_user_id(users),
                      username |-> req[r].username, email |-> req[r].email,
                      password |-> make_password(req[r].password)]}
            /\ req' = [req EXCEPT ![r] =
                    [req[r] EXCEPT !.pc = "create_delete",
                                   !.user = next_user_id(users),
                                   !.inserted = 1]]
       ELSE /\ req' = [req EXCEPT ![r] = Respond(r, 500, "IntegrityError")]
            /\ UNCHANGED users
    /\ UNCHANGED <<contact_messages, content, tokens, issued, events,
                   registrations, next_id>>

\* ---------------------------------------------------------- POST /contact/
\* a request to contact_view; ContactMessage.objects.create is its only
\* store step
ContactRequest(r) ==
    /\ CanStart(r)
    /\ \E b \in ContactBodies, m \in Methods :
          LET q == [IdleReq EXCEPT !.kind = "contact", !.body = b,
                                   !.method = m, !.after = Done]
              data == parse_request_body(b)
              valid == /\ m = "POST"
                       /\ \A f \in {"name", "email", "message"} :
                             /\ CanStrip(data, f)
                             /\ Stripped(data, f) # <<>>
          IN  /\ req' = [req EXCEPT ![r] =
                    IF m # "POST"
                    THEN Answer(q, 405, "Method not allowed.")
                    ELSE IF \E f \in {"name", "email", "message"} :
                                ~CanStrip(data, f)
                    THEN Answer(q, 500, "AttributeError")
                    ELSE IF ~valid
                    THEN Answer(q, 400,
                                "Name, email and message are required.")
                    ELSE [Answer(q, 201, "Message received. Thank you!")
                            EXCEPT !.inserted = 1]]
              /\ contact_messages' =
                    IF valid
                    THEN Append(contact_messages,
                                [name |-> Stripped(data, "name"),
                                 email |-> Stripped(data, "email"),
                                 message |-> Stripped(data, "message")])
                    ELSE contact_messages
    /\ UNCHANGED <<content, users, tokens, issued, events, registrations,
                   next_id>>

\* ------------------------------------------------------------ initial store
\* an Event row, with the fields events_list_view reads; description_ja may
\* be blank, and the images are the EventImage rows of the event
EventRow(capacity, start, description_ja, images) ==
    [capacity |-> capacity, start_datetime |-> start, location |-> "hall",
     title_en |-> "title-en", title_ja |-> "title-ja",
     description_en |-> "description-en", description_ja |-> description_ja,
     images |-> images]

\* the content tables before the admin has saved any row
NoContent ==
    /\ now = 0
    /\ mission_pages = <<>>
    /\ cleaning_pages = <<>>
    /\ events_page_settings = <<>>
    /\ strings = {}
    /\ site_text = <<>>

InitUsers ==
    {[id |-> 1, username |-> <<"a">>, email |-> <<"a", "@", "x">>,
      password |-> make_password("pw")],
     [id |-> 2, username |-> <<"b">>, email |-> <<"b", "@", "x">>,
      password |-> make_password("pw")]}

\* capacity is a nullable PositiveIntegerField: NULL, zero or positive
Capacities == {<<>>} \cup {<<n>> : n \in 0..MaxCapacity}

\* two users who have logged in, event 1 with any capacity, event 2 unlimited
Init ==
    /\ users = InitUsers
    /\ tokens = {[key |-> K("a"), user |-> 1], [key |-> K("b"), user |-> 2]}
    /\ issued = {K("a"), K("b")}
    /\ \E c \in Capacities :
          events = (1 :> EventRow(c, 1, "", <<>>)) @@
                   (2 :> EventRow(<<>>, 1, "", <<>>))
    /\ registrations = {}
    /\ contact_messages = <<>>
    /\ next_id = 1
    /\ req = [r \in Slots |-> IdleReq]
    /\ NoContent

Next ==
    \E r \in Slots :
        \/ RegisterRequest(r)
        \/ GetEvent(r)
        \/ IsFull(r)
        \/ Exists(r)
        \/ Insert(r)

Spec == Init /\ [][Next]_vars

\* the token service: logins and logouts against a store where both users
\* hold a token
InitAuth ==
    /\ users = InitUsers
    /\ tokens = {[key |-> K("a"), user |-> 1], [key |-> K("b"), user |-> 2]}
    /\ issued = {K("a"), K("b")}
    /\ events = (1 :> EventRow(<<MaxCapacity>>, 1, "", <<>>)) @@
                (2 :> EventRow(<<>>, 1, "", <<>>))
    /\ registrations = {}
    /\ contact_messages = <<>>
    /\ next_id = 1
    /\ req = [r \in Slots |-> IdleReq]
    /\ NoContent

NextAuth ==
    \E r \in Slots :
        \/ LoginRequest(r, LoginBodies)
        \/ CreateDelete(r)
        \/ CreateInsert(r)
        \/ LogoutRequest(r, Headers)
        \/ LogoutDelete(r)

SpecAuth == InitAuth /\ [][NextAuth]_vars

\* a generated key that ends in the letters of the prefix (of its 40
\* characters the last six)
TokenKey == <<"a", "T", "o", "k", "e", "n">>

\* logouts and logins of a user whose key ends in "Token", with and without
\* a blank after the key
InitLogout ==
    /\ users = InitUsers
    /\ tokens = {[key |-> TokenKey, user |-> 1], [key |-> K("b"), user |-> 2]}
    /\ issued = {TokenKey, K("b")}
    /\ events = <<>>
    /\ registrations = {}
    /\ contact_messages = <<>>
    /\ next_id = 1
    /\ req = [r \in Slots |-> IdleReq]
    /\ NoContent

NextLogout ==
    \E r \in Slots :
        \/ LogoutRequest(r, {<<>>, Prefix \o TokenKey,
                             Prefix \o TokenKey \o <<" ">>,
                             Prefix \o K("b")})
        \/ LogoutDelete(r)
        \/ LoginRequest(r, {Json(Object({<<"username", Str(<<"a">>)>>,
                                         <<"password", Str("pw")>>}))})
        \/ CreateDelete(r)
        \/ CreateInsert(r)

SpecLogout == InitLogout /\ [][NextLogout]_vars

\* account registration: requests to register_user_view, concurrent or one
\* after the other, against a store of two users of whom one holds a token
InitAccounts ==
    /\ users = InitUsers
    /\ tokens = {[key |-> K("a"), user |-> 1]}
    /\ issued = {K("a")}
    /\ events = <<>>
    /\ registrations = {}
    /\ contact_messages = <<>>
    /\ next_id = 1
    /\ req = [r \in Slots |-> IdleReq]
    /\ NoContent

NextAccounts ==
    \E r \in Slots :
        \/ RegisterUserRequest(r, RegisterBodies)
        \/ EmailExists(r)
        \/ UserInsert(r)
        \/ CreateDelete(r)
        \/ CreateInsert(r)

SpecAccounts == InitAccounts /\ [][NextAccounts]_vars

\* ============================================================ content views
\* The public GET views.  Each is modelled as one step: it only reads, and
\* the tables it reads are written by the admin alone.

\* ------------------------------------------------------- query parameters
\* A query parameter is <<>> when absent and <<text>> when present.
\* request.GET.get(name, default)
Get(param, default) == IF param = <<>> THEN default ELSE param[1]

Digits == <<"0", "1", "2", "3", "4", "5", "6", "7", "8", "9">>

IsDigit(c) == \E d \in DOMAIN Digits : Digits[d] = c

DigitValue(c) == (CHOOSE d \in DOMAIN Digits : Digits[d] = c) - 1

\* the value of a run of digits and underscores, read in base ten
RECURSIVE DigitsValue(_)
DigitsValue(s) ==
    IF s = <<>> THEN 0
    ELSE LET c == s[Len(s)]
             rest == SubSeq(s, 1, Len(s) - 1)
         IN  IF c = "_" THEN DigitsValue(rest)
             ELSE 10 * DigitsValue(rest) + DigitValue(c)

\* is this what int() accepts after the sign: digits, single underscores
\* only between digits
IsNumeral(s) ==
    /\ s # <<>>
    /\ IsDigit(s[1]) /\ IsDigit(s[Len(s)])
    /\ \A i \in DOMAIN s : IsDigit(s[i]) \/ s[i] = "_"
    /\ \A i \in 1..(Len(s) - 1) : ~(s[i] = "_" /\ s[i + 1] = "_")

\* int(text): <<n>>, or <<>> when it raises ValueError
int(text) ==
    LET t == Strip(text)
        signed == t # <<>> /\ Head(t) \in {"+", "-"}
        numeral == IF signed THEN Tail(t) ELSE t
    IN  IF ~IsNumeral(numeral) THEN <<>>
        ELSE IF signed /\ Head(t) = "-" THEN <<0 - DigitsValue(numeral)>>
        ELSE <<DigitsValue(numeral)>>

Max(a, b) == IF a >= b THEN a ELSE b

Min(a, b) == IF a <= b THEN a ELSE b

\* str.lower(), on the letters the inputs use
LowerChar(c) ==
    CASE c = "T" -> "t" [] c = "R" -> "r" [] c = "U" -> "u"
      [] c = "E" -> "e" [] OTHER -> c

Lower(s) == [i \in DOMAIN s |-> LowerChar(s[i])]

\* ------------------------------------------------------------ GET /events/
MaxPageSize == 100

DefaultPageSize == 9

\* events_list_view: page = max(int(GET.get('page', '1')), 1), 1 on ValueError
page_of(param) ==
    LET n == int(Get(param, <<"1">>))
    IN  IF n = <<>> THEN 1 ELSE Max(n[1], 1)

\* the page size without the upper clamp
page_size_unclamped(param) ==
    LET n == int(Get(param, <<"9">>))
    IN  IF n = <<>> THEN DefaultPageSize ELSE Max(n[1], 1)

\* a page size that treats 0 as missing
page_size_zero_default(param) ==
    LET n == int(Get(param, <<"9">>))
    IN  IF n = <<>> \/ n = <<0>> THEN DefaultPageSize
        ELSE Max(Min(n[1], MaxPageSize), 1)

\* events_list_view: page_size = max(min(int(GET.get('page_size', '9')),
\* 100), 1), 9 on ValueError
page_size_of(param) ==
    LET n == int(Get(param, <<"9">>))
    IN  IF n = <<>> THEN DefaultPageSize
        ELSE Max(Min(n[1], MaxPageSize), 1)

\* events_list_view without the clamp to the last page
clamp_page_none(page, total_pages) == page

\* events_list_view: if page > total_pages: page = total_pages
clamp_page(page, total_pages) ==
    IF page > total_pages THEN total_pages ELSE page

\* events_list_view: include_past = GET.get('past', 'false').lower() == 'true'
include_past_of(param) ==
    Lower(Get(param, <<"f", "a", "l", "s", "e">>)) = <<"t", "r", "u", "e">>

\* the queryset of events_list_view: every event, or those starting at or
\* after now
ListedEvents(include_past) ==
    {e \in DOMAIN events : include_past \/ events[e].start_datetime >= now}

\* order_by('-start_datetime'): the orders the database may return the ids
\* in; rows with equal start time come in any order
Orders(ids) ==
    {o \in [1..Cardinality(ids) -> ids] :
        /\ \A i, j \in DOMAIN o : i # j => o[i] # o[j]
        /\ \A i \in DOMAIN o : i < Len(o) =>
              events[o[i]].start_datetime >= events[o[i + 1]].start_datetime}

\* a language test that takes a missing lang for English
lang_is_or_absent(lang, code) ==
    lang = <<code>> \/ (code = "en" /\ lang = <<>>)

\* lang == 'en', lang == 'ja': lang is the query parameter, None when absent
lang_is(lang, code) == lang = <<code>>

\* events_list_view: the item of one event
event_item(lang, e) ==
    LET event == events[e]
        item == [id |-> e, start_datetime |-> event.start_datetime,
                 location |-> event.location, capacity |-> event.capacity,
                 available_slots |->
                     available_slots(event.capacity,
                                     RegistrationCount(registrations, e)),
                 images |-> event.images]
    IN  IF lang_is(lang, "en")
        THEN item @@ [title |-> event.title_en,
                      description |-> event.description_en]
        ELSE IF lang_is(lang, "ja")
        THEN item @@ [title |-> event.title_ja,
                      description |-> event.description_ja]
        ELSE item @@ [title_en |-> event.title_en,
                      title_ja |-> event.title_ja,
                      description_en |-> event.description_en,
                      description_ja |-> event.description_ja]

\* one page more than the full pages, also when no event is left for it
total_pages_extra(total, page_size) ==
    IF total # 0 THEN total \div page_size + 1 ELSE 1

\* events_list_view:
\* total_pages = (total + page_size - 1) // page_size if total else 1
total_pages_of(total, page_size) ==
    IF total # 0 THEN (total + page_size - 1) \div page_size ELSE 1

\* events_list_view from total = qs.count() on: the payload for the ordered
\* queryset
events_list_payload(lang, page_param, page_size_param, order) ==
    LET page_size == page_size_of(page_size_param)
        total == Len(order)
        total_pages == total_pages_of(total, page_size)
        page == clamp_page(page_of(page_param), total_pages)
        start == (page - 1) * page_size
        end == Min(start + page_size, total)
    IN  [results |-> IF end > start
                     THEN [i \in 1..(end - start) |->
                              event_item(lang, order[start + i])]
                     ELSE <<>>,
         page |-> page, page_size |-> page_size, total |-> total,
         total_pages |-> total_pages,
         has_next |-> page < total_pages, has_prev |-> page > 1]

\* a request of a content view: the query parameters and the response
ContentReq ==
    [kind |-> "none", pc |-> "done", method |-> "GET", lang |-> <<>>,
     past |-> <<>>, page |-> <<>>, page_size |-> <<>>,
     ns |-> <<>>, namespace |-> <<>>,
     status |-> 0, payload |-> <<>>, etag |-> <<>>,
     matched |-> {}, after |-> {}]

\* the response to a method other than GET
NotGet(kind, m) ==
    [ContentReq EXCEPT !.kind = kind, !.method = m, !.status = 405,
                       !.payload = [detail |-> "Method not allowed."]]

\* ------------------------------------------------ inputs of the content views
LangInputs == {<<>>, <<"en">>, <<"ja">>, <<"EN">>, <<"fr">>}

PastInputs == {<<>>, <<<<"t", "r", "u", "e">>>>, <<<<"T", "R", "U", "E">>>>,
               <<<<"1">>>>}

PageInputs ==
    {<<>>, <<<<>>>>, <<<<"0">>>>, <<<<"1">>>>, <<<<"2">>>>, <<<<"3">>>>,
     <<<<"-", "1">>>>, <<<<"7">>>>, <<<<"x">>>>}

PageSizeInputs ==
    {<<>>, <<<<>>>>, <<<<"0">>>>, <<<<"1">>>>, <<<<"2">>>>, <<<<" ", "2">>>>,
     <<<<"-", "5">>>>, <<<<"1", "0", "0">>>>, <<<<"1", "0", "1">>>>,
     <<<<"9", "9", "9">>>>, <<<<"a", "b", "c">>>>, <<<<"2", ".", "5">>>>}

\* a request to events_list_view, with its lang, page and page_size among
\* the given ones
EventsListRequest(langs, pages, page_sizes) ==
    /\ req[1].pc = "idle"
    /\ \E m \in Methods :
          IF m # "GET"
          THEN req' = [req EXCEPT ![1] = NotGet("events_list", m)]
          ELSE \E lang \in langs, past \in PastInputs,
                  page \in pages, page_size \in page_sizes :
               \E order \in Orders(ListedEvents(include_past_of(past))) :
                  req' = [req EXCEPT ![1] =
                      [ContentReq EXCEPT
                          !.kind = "events_list", !.lang = lang,
                          !.past = past, !.page = page,
                          !.page_size = page_size, !.status = 200,
                          !.payload = events_list_payload(lang, page,
                                                          page_size, order)]]
    /\ UNCHANGED <<contact_messages, content, users, tokens, issued, events,
                   registrations, next_id>>

\* ------------------------------------------------------------ GET /mission/
\* the last row of a table, as an optional value
first_last(table) ==
    IF table = <<>> THEN <<>> ELSE <<table[Len(table)]>>

\* Model.objects.first(): the row with the smallest primary key (the tables
\* are kept in that order), or None
first(table) ==
    IF table = <<>> THEN <<>> ELSE <<Head(table)>>

\* request.build_absolute_uri(image.url) if image else None; a blank
\* ImageField is ""
image_url(image) ==
    IF image = "" THEN <<>> ELSE <<"http://testserver" \o image>>

\* datetime.isoformat()
isoformat(t) == <<"isoformat", t>>

\* mission_view: the defaults served when no MissionPage row exists (here
\* and below the texts of the code are shortened, the Japanese ones written
\* in Latin letters)
MissionDefaults ==
    [title_en |-> "House of Bijou", title_ja |-> "House of Bijou",
     body_en |-> "House of Bijou celebrates", body_ja |-> "House of Bijou ha",
     hero_image |-> <<>>]

\* mission_view after the method check
mission_payload(lang) ==
    IF first(mission_pages) = <<>>
    THEN IF lang_is(lang, "en")
         THEN [title |-> MissionDefaults.title_en,
               body |-> MissionDefaults.body_en, hero_image |-> <<>>]
         ELSE IF lang_is(lang, "ja")
         THEN [title |-> MissionDefaults.title_ja,
               body |-> MissionDefaults.body_ja, hero_image |-> <<>>]
         ELSE MissionDefaults
    ELSE LET page == first(mission_pages)[1]
             tail == [hero_image |-> image_url(page.hero_image),
                      updated_at |-> isoformat(page.updated_at)]
         IN  IF lang_is(lang, "en")
             THEN [title |-> page.title_en, body |-> page.body_en] @@ tail
             ELSE IF lang_is(lang, "ja")
             THEN [title |-> page.title_ja, body |-> page.body_ja] @@ tail
             ELSE [title_en |-> page.title_en, title_ja |-> page.title_ja,
                   body_en |-> page.body_en, body_ja |-> page.body_ja] @@ tail

\* a request to mission_view
MissionRequest ==
    /\ req[1].pc = "idle"
    /\ \E m \in Methods :
          IF m # "GET"
          THEN req' = [req EXCEPT ![1] = NotGet("mission", m)]
          ELSE \E lang \in LangInputs :
                  req' = [req EXCEPT ![1] =
                      [ContentReq EXCEPT
                          !.kind = "mission", !.lang = lang, !.status = 200,
                          !.payload = mission_payload(lang)]]
    /\ UNCHANGED <<contact_messages, content, users, tokens, issued, events,
                   registrations, next_id>>

\* --------------------------------------------------- GET /cleaning-service/
GalleryLimit == 3

\* cleaning_service_view: the defaults served when no row exists
CleaningDefaults ==
    [title_en |-> "Airbnb Cleaning", title_ja |-> "seisou sabisu",
     description_en |-> "Professional, reliable short-stay cleaning",
     description_ja |-> "shinrai dekiru seisou",
     cta_en |-> "Tell us your schedule", cta_ja |-> "nittei wo oshirase",
     image |-> <<>>,
     features |->
        <<[text_en |-> "Full turnover", text_ja |-> "furu tan",
           color |-> "primary"],
          [text_en |-> "Restock consumables", text_ja |-> "shoumouhin",
           color |-> "accent"],
          [text_en |-> "Flexible scheduling", text_ja |-> "juunan",
           color |-> "secondary"],
          [text_en |-> "Photo reporting", text_ja |-> "shashin",
           color |-> "primary"]>>]

\* a or b, of two strings
Or(a, b) == IF a # "" THEN a ELSE b

\* the Japanese text of a feature without the fallback
feature_text_ja_plain(f) == f.text_ja

\* cleaning_service_view, stored page, lang=ja: f['text_ja'] or f['text_en']
feature_text_ja(f) == Or(f.text_ja, f.text_en)

\* [{'text': ..., 'color': f['color']} for f in features], per language
FeatureTexts(features, code, stored) ==
    [i \in DOMAIN features |->
        [text |-> IF code = "en" THEN features[i].text_en
                  ELSE IF stored THEN feature_text_ja(features[i])
                  ELSE features[i].text_ja,
         color |-> features[i].color]]

\* page.gallery_images.all()[:3]
Gallery(images) ==
    SubSeq(images, 1, Min(Len(images), GalleryLimit))

\* cleaning_service_view after the method check
cleaning_payload(lang) ==
    IF first(cleaning_pages) = <<>>
    THEN LET d == CleaningDefaults
         IN  IF lang_is(lang, "ja")
             THEN [title |-> d.title_ja, description |-> d.description_ja,
                   cta |-> d.cta_ja, image |-> <<>>,
                   features |-> FeatureTexts(d.features, "ja", FALSE)]
             ELSE IF lang_is(lang, "en")
             THEN [title |-> d.title_en, description |-> d.description_en,
                   cta |-> d.cta_en, image |-> <<>>,
                   features |-> FeatureTexts(d.features, "en", FALSE)]
             ELSE d
    ELSE LET page == first(cleaning_pages)[1]
             tail == [updated_at |-> isoformat(page.updated_at),
                      image |-> image_url(page.image),
                      gallery |-> Gallery(page.gallery_images)]
         IN  IF lang_is(lang, "en")
             THEN [title |-> page.title_en,
                   description |-> page.description_en, cta |-> page.cta_en,
                   features |-> FeatureTexts(page.features, "en", TRUE)]
                  @@ tail
             ELSE IF lang_is(lang, "ja")
             THEN [title |-> page.title_ja,
                   description |-> page.description_ja, cta |-> page.cta_ja,
                   features |-> FeatureTexts(page.features, "ja", TRUE)]
                  @@ tail
             ELSE [title_en |-> page.title_en, title_ja |-> page.title_ja,
                   description_en |-> page.description_en,
                   description_ja |-> page.description_ja,
                   cta_en |-> page.cta_en, cta_ja |-> page.cta_ja,
                   features |-> page.features] @@ tail

\* a request to cleaning_service_view
CleaningRequest ==
    /\ req[1].pc = "idle"
    /\ \E m \in Methods :
          IF m # "GET"
          THEN req' = [req EXCEPT ![1] = NotGet("cleaning", m)]
          ELSE \E lang \in LangInputs :
                  req' = [req EXCEPT ![1] =
                      [ContentReq EXCEPT
                          !.kind = "cleaning", !.lang = lang, !.status = 200,
                          !.payload = cleaning_payload(lang)]]
    /\ UNCHANGED <<contact_messages, content, users, tokens, issued, events,
                   registrations, next_id>>

\* -------------------------------------------------------- GET /events-page/
\* events_page_settings_view: the defaults served when no row exists
EventsPageDefaults ==
    [title_en |-> "Upcoming Events", title_ja |-> "ibento jouhou",
     subtitle_en |-> "Join community gatherings",
     subtitle_ja |-> "komyuniti ibento", hero_image |-> <<>>]

\* events_page_settings_view after the method check
events_page_payload(lang) ==
    LET data == IF first(events_page_settings) = <<>> THEN EventsPageDefaults
                ELSE LET obj == first(events_page_settings)[1]
                     IN  [title_en |-> obj.title_en, title_ja |-> obj.title_ja,
                          subtitle_en |-> obj.subtitle_en,
                          subtitle_ja |-> obj.subtitle_ja,
                          hero_image |-> image_url(obj.hero_image),
                          updated_at |-> isoformat(obj.updated_at)]
    IN  IF lang_is(lang, "en")
        THEN [title |-> data.title_en, subtitle |-> data.subtitle_en,
              hero_image |-> data.hero_image]
        ELSE IF lang_is(lang, "ja")
        THEN [title |-> data.title_ja, subtitle |-> data.subtitle_ja,
              hero_image |-> data.hero_image]
        ELSE data

\* a request to events_page_settings_view
EventsPageRequest ==
    /\ req[1].pc = "idle"
    /\ \E m \in Methods :
          IF m # "GET"
          THEN req' = [req EXCEPT ![1] = NotGet("events_page", m)]
          ELSE \E lang \in LangInputs :
                  req' = [req EXCEPT ![1] =
                      [ContentReq EXCEPT
                          !.kind = "events_page", !.lang = lang,
                          !.status = 200,
                          !.payload = events_page_payload(lang)]]
    /\ UNCHANGED <<contact_messages, content, users, tokens, issued, events,
                   registrations, next_id>>

\* ------------------------------------------------------------- GET /i18n/
Common == <<"c", "o", "m", "m", "o", "n">>

Home == <<"h", "o", "m", "e">>

Other == <<"x">>

En == <<"e", "n">>

Ja == <<"j", "a">>

Fr == <<"f", "r">>

\* str.split(','): the pieces between the commas
RECURSIVE Split(_)
Split(s) ==
    IF \A i \in DOMAIN s : s[i] # "," THEN <<s>>
    ELSE LET c == CHOOSE i \in DOMAIN s :
                      s[i] = "," /\ \A j \in 1..(i - 1) : s[j] # ","
         IN  <<SubSeq(s, 1, c - 1)>> \o Split(Drop(s, c))

NonEmpty(s) == s # <<>>

\* i18n_view: [ns.strip() for ns in param.split(',') if ns.strip()]
namespaces_of(param) ==
    LET pieces == Split(Get(param, Common))
    IN  SelectSeq([i \in DOMAIN pieces |-> Strip(pieces[i])], NonEmpty)

\* TranslatableString.objects.filter(language=lang, namespace=ns)
StringRows(lang, ns) ==
    {row \in strings : row.language = lang /\ row.namespace = ns}

\* a merge in which the first namespace that defines a key keeps it
WithRows_first(data, rows) ==
    [k \in DOMAIN data \cup {row.key : row \in rows} |->
        IF k \in DOMAIN data THEN data[k]
        ELSE (CHOOSE row \in rows : row.key = k).text]

\* a dict after data[row.key] = row.text for each of the rows (the rows of
\* one language and namespace hold each key once: unique_together)
WithRows(data, rows) ==
    [k \in DOMAIN data \cup {row.key : row \in rows} |->
        IF \E row \in rows : row.key = k
        THEN (CHOOSE row \in rows : row.key = k).text
        ELSE data[k]]

\* i18n_view: the loop over the namespaces, for the dict
RECURSIVE merged_data(_, _, _)
merged_data(data, lang, namespaces) ==
    IF namespaces = <<>> THEN data
    ELSE merged_data(WithRows(data, StringRows(lang, Head(namespaces))),
                     lang, Tail(namespaces))

\* i18n_view with min for max
latest_with_min(latest, ts) ==
    <<Min(IF latest = <<>> \/ latest = <<0>> THEN ts ELSE latest[1], ts)>>

\* i18n_view: latest_ts = max(latest_ts or ts, ts); <<>> is None, and a
\* latest_ts of 0 is false
latest_with(latest, ts) ==
    <<Max(IF latest = <<>> \/ latest = <<0>> THEN ts ELSE latest[1], ts)>>

\* the inner loop of i18n_view, for latest_ts.  The rows come in key order;
\* with the positive timestamps auto_now writes the result is the same in
\* every order.
RECURSIVE latest_over(_, _)
latest_over(latest, rows) ==
    IF rows = {} THEN latest
    ELSE LET row == CHOOSE x \in rows : TRUE
         IN  latest_over(latest_with(latest, row.updated_at), rows \ {row})

\* i18n_view: the loop over the namespaces, for latest_ts
RECURSIVE merged_latest(_, _, _)
merged_latest(latest, lang, namespaces) ==
    IF namespaces = <<>> THEN latest
    ELSE merged_latest(latest_over(latest, StringRows(lang, Head(namespaces))),
                       lang, Tail(namespaces))

\* the fixed label keys of the site-text overlay
OverlayKeys ==
    {"home", "events", "cleaning", "cleaning_short", "login", "register",
     "logout", "browse_events", "learn_more", "instagram_url"}

\* i18n_view: the dict data is updated with, from the SiteTextSettings row
site_text_labels(st, lang) ==
    IF lang = Ja
    THEN [k \in OverlayKeys |->
            CASE k = "home" -> st.home_label_ja
              [] k = "events" -> st.events_label_ja
              [] k = "cleaning" -> st.cleaning_label_ja
              [] k = "cleaning_short" -> st.cleaning_short_ja
              [] k = "login" -> st.login_ja
              [] k = "register" -> st.register_ja
              [] k = "logout" -> st.logout_ja
              [] k = "browse_events" -> st.browse_events_ja
              [] k = "learn_more" -> st.learn_more_ja
              [] k = "instagram_url" -> st.instagram_url]
    ELSE [k \in OverlayKeys |->
            CASE k = "home" -> st.home_label_en
              [] k = "events" -> st.events_label_en
              [] k = "cleaning" -> st.cleaning_label_en
              [] k = "cleaning_short" -> st.cleaning_short_en
              [] k = "login" -> st.login_en
              [] k = "register" -> st.register_en
              [] k = "logout" -> st.logout_en
              [] k = "browse_events" -> st.browse_events_en
              [] k = "learn_more" -> st.learn_more_en
              [] k = "instagram_url" -> st.instagram_url]

\* dict.update
Update(data, other) ==
    [k \in DOMAIN data \cup DOMAIN other |->
        IF k \in DOMAIN other THEN other[k] ELSE data[k]]

\* an overlay that yields to the namespace rows
with_site_text_under(data, lang) ==
    IF site_text = <<>> THEN data
    ELSE Update(site_text_labels(Head(site_text), lang), data)

\* i18n_view: st = SiteTextSettings.objects.first(); if st: data.update(...)
with_site_text(data, lang) ==
    IF site_text = <<>> THEN data
    ELSE Update(data, site_text_labels(Head(site_text), lang))

\* str(n) of a natural number
RECURSIVE Decimal(_)
Decimal(n) ==
    IF n < 10 THEN <<Digits[n + 1]>>
    ELSE Decimal(n \div 10) \o <<Digits[(n % 10) + 1]>>

\* int(row.updated_at.timestamp()): the whole seconds of a time in ticks
Seconds(ticks) == ticks \div TicksPerSecond

ETagPrefix == <<"W", "/", "\"", "i", "1", "8", "n", "-">>

\* i18n_view: f'W/"i18n-{lang}-{int(latest_ts)}"'
merged_etag(lang, latest_ts) ==
    ETagPrefix \o lang \o <<"-">> \o Decimal(Seconds(latest_ts)) \o <<"\"">>

\* i18n_namespace_view: f'W/"i18n-{lang}-{namespace}-{int(latest_ts)}"'
namespace_etag(lang, namespace, latest_ts) ==
    ETagPrefix \o lang \o <<"-">> \o namespace \o <<"-">>
        \o Decimal(Seconds(latest_ts)) \o <<"\"">>

\* max(r.updated_at.timestamp() for r in rows), of rows that are not empty
MaxUpdatedAt(rows) ==
    CHOOSE t \in {row.updated_at : row \in rows} :
        \A row \in rows : row.updated_at <= t

\* the rows an i18n_view request reads
MergedRows(lang, namespaces) ==
    UNION {StringRows(lang, namespaces[i]) : i \in DOMAIN namespaces}

\* the language of the path and the ns parameter of the merged endpoint
I18nLangs == {En, Ja, Fr}

NsInputs ==
    {<<>>, <<<<>>>>, <<Home>>, <<Other>>,
     <<Common \o <<",">> \o Home>>, <<Home \o <<",">> \o Common>>,
     <<<<" ">> \o Home \o <<" ", ",", ",">> \o Common \o <<",">> \o Home>>}

NamespaceInputs == {Common, Home, Other}

\* a request to i18n_view, with its language and ns among the given ones
I18nRequest(r, langs, nss) ==
    /\ CanStart(r)
    /\ \E m \in Methods :
          IF m # "GET"
          THEN req' = [req EXCEPT ![r] =
                          [NotGet("i18n", m) EXCEPT !.after = Done]]
          ELSE \E lang \in langs, ns \in nss :
               LET namespaces == namespaces_of(ns)
                   latest_ts == merged_latest(<<>>, lang, namespaces)
                   data == with_site_text(
                               merged_data(<<>>, lang, namespaces), lang)
               IN  req' = [req EXCEPT ![r] =
                      [ContentReq EXCEPT
                          !.kind = "i18n", !.lang = lang, !.ns = ns,
                          !.status = 200, !.payload = data,
                          !.etag = IF latest_ts # <<>>
                                   THEN <<merged_etag(lang, latest_ts[1])>>
                                   ELSE <<>>,
                          !.matched = MergedRows(lang, namespaces),
                          !.after = Done]]
    /\ UNCHANGED <<contact_messages, content, users, tokens, issued, events,
                   registrations, next_id>>

\* a request to i18n_namespace_view, with its language and namespace among
\* the given ones
I18nNamespaceRequest(r, langs, namespaces) ==
    /\ CanStart(r)
    /\ \E m \in Methods :
          IF m # "GET"
          THEN req' = [req EXCEPT ![r] =
                          [NotGet("i18n_namespace", m) EXCEPT !.after = Done]]
          ELSE \E lang \in langs, namespace \in namespaces :
               LET rows == StringRows(lang, namespace)
               IN  req' = [req EXCEPT ![r] =
                      [ContentReq EXCEPT
                          !.kind = "i18n_namespace", !.lang = lang,
                          !.namespace = namespace, !.status = 200,
                          !.payload = WithRows(<<>>, rows),
                          !.etag = IF rows # {}
                                   THEN <<namespace_etag(lang, namespace,
                                              MaxUpdatedAt(rows))>>
                                   ELSE <<>>,
                          !.matched = rows, !.after = Done]]
    /\ UNCHANGED <<contact_messages, content, users, tokens, issued, events,
                   registrations, next_id>>

\* the admin saves a TranslatableString row: auto_now sets updated_at
SaveString ==
    /\ \E row \in strings :
          /\ row.updated_at # now
          /\ strings' = (strings \ {row}) \cup {[row EXCEPT !.updated_at = now]}
    /\ UNCHANGED <<contact_messages, users, tokens, issued, events,
                   registrations, next_id, req,
                   now, mission_pages, cleaning_pages, events_page_settings,
                   site_text>>

\* time passes
Tick ==
    /\ now < MaxTick
    /\ now' = now + 1
    /\ UNCHANGED <<contact_messages, users, tokens, issued, events,
                   registrations, next_id, req,
                   mission_pages, cleaning_pages, events_page_settings,
                   strings, site_text>>

\* a TranslatableString row
StringRow(namespace, key, language, text, updated_at) ==
    [namespace |-> namespace, key |-> key, language |-> language,
     text |-> text, updated_at |-> updated_at]

\* a SiteTextSettings row
SiteTextRow(tag) ==
    [home_label_en |-> tag \o ":Home", home_label_ja |-> tag \o ":home-ja",
     events_label_en |-> tag \o ":Events",
     events_label_ja |-> tag \o ":events-ja",
     cleaning_label_en |-> tag \o ":Cleaning Service",
     cleaning_label_ja |-> tag \o ":cleaning-ja",
     cleaning_short_en |-> tag \o ":Cleaning",
     cleaning_short_ja |-> tag \o ":cleaning-short-ja",
     login_en |-> tag \o ":Login", login_ja |-> tag \o ":login-ja",
     register_en |-> tag \o ":Register",
     register_ja |-> tag \o ":register-ja",
     logout_en |-> tag \o ":Logout", logout_ja |-> tag \o ":logout-ja",
     browse_events_en |-> tag \o ":Browse events",
     browse_events_ja |-> tag \o ":browse-ja",
     learn_more_en |-> tag \o ":Learn more",
     learn_more_ja |-> tag \o ":learn-ja",
     instagram_url |-> tag \o ":"]

\* the translation store: "title" in both namespaces, "home" (a label key of
\* the overlay) in common, "about" in home only, one Japanese row; no
\* SiteTextSettings row, one, or two
InitI18n ==
    /\ users = InitUsers
    /\ tokens = {}
    /\ issued = {}
    /\ events = <<>>
    /\ registrations = {}
    /\ contact_messages = <<>>
    /\ next_id = 1
    /\ req = [r \in Slots |-> IdleReq]
    /\ now = 2
    /\ mission_pages = <<>>
    /\ cleaning_pages = <<>>
    /\ events_page_settings = <<>>
    /\ strings = {StringRow(Common, "title", En, "common-title", 1),
                  StringRow(Home, "title", En, "home-title", 1),
                  StringRow(Common, "home", En, "common-home", 2),
                  StringRow(Home, "title", Ja, "home-title-ja", 1)}
    /\ site_text \in {<<>>, <<SiteTextRow("first")>>,
                      <<SiteTextRow("first"), SiteTextRow("second")>>}

\* one request, of any language and namespaces, to a store the admin edits
NextI18n ==
    \/ I18nRequest(1, I18nLangs, NsInputs)
    \/ I18nNamespaceRequest(1, I18nLangs, NamespaceInputs)
    \/ SaveString
    \/ Tick

SpecI18n == InitI18n /\ [][NextI18n]_vars

\* the inputs of the requests that follow one another: English, two
\* namespaces merged or one that has no rows
CacheLangs == {En}

CacheNs == {<<Home \o <<",">> \o Common>>, <<Other>>}

CacheNamespaces == {Common, Other}

\* the English rows of the translation store and one SiteTextSettings row
InitCache ==
    /\ users = InitUsers
    /\ tokens = {}
    /\ issued = {}
    /\ events = <<>>
    /\ registrations = {}
    /\ contact_messages = <<>>
    /\ next_id = 1
    /\ req = [r \in Slots |-> IdleReq]
    /\ now = 2
    /\ mission_pages = <<>>
    /\ cleaning_pages = <<>>
    /\ events_page_settings = <<>>
    /\ strings = {StringRow(Common, "title", En, "common-title", 1),
                  StringRow(Home, "title", En, "home-title", 1),
                  StringRow(Common, "home", En, "common-home", 2)}
    /\ site_text = <<SiteTextRow("first")>>

\* successive requests, while the admin edits the store
NextCache ==
    \/ \E r \in Slots :
          \/ I18nRequest(r, CacheLangs, CacheNs)
          \/ I18nNamespaceRequest(r, CacheLangs, CacheNamespaces)
    \/ SaveString
    \/ Tick

SpecCache == InitCache /\ [][NextCache]_vars

\* ------------------------------------------------- the content specification
\* start times around the clock value 1: past, now, future
StartTimes == {0, 1, 2}

\* the event table of the list: up to MaxEvents events with any start times;
\* event 1 is limited and has an image, even ids have a blank description_ja
InitEvents ==
    \E n \in 0..MaxEvents : \E start \in [1..n -> StartTimes] :
        events = [e \in 1..n |->
                    EventRow(IF e = 1 THEN <<MaxCapacity>> ELSE <<>>,
                             start[e],
                             IF e % 2 = 0 THEN "" ELSE "description-ja",
                             IF e = 1
                             THEN <<[url |-> "/media/events/images/1.jpg",
                                     caption_en |-> "caption-en",
                                     caption_ja |-> ""]>>
                             ELSE <<>>)]

\* MissionPage rows: every text column may be blank
MissionRows ==
    [title_en : {"", "title-en"}, title_ja : {"", "title-ja"},
     body_en : {"body-en"}, body_ja : {"", "body-ja"},
     hero_image : {"", "/media/mission/hero.jpg"}, updated_at : {1}]

\* the mission table: empty, one row, or two rows
MissionTables ==
    {<<>>} \cup {<<row>> : row \in MissionRows}
           \cup {<<row, [row EXCEPT !.title_en = "older-en",
                                    !.title_ja = "older-ja"]>> :
                    row \in {r \in MissionRows : r.hero_image = ""}}

\* CleaningFeature rows of a page, in their order: text_ja may be blank
FeatureLists ==
    UNION {[1..n -> [text_en : {"feature-en"}, text_ja : {"", "feature-ja"},
                     color : {"accent"}]] : n \in 0..MaxFeatures}

\* CleaningGalleryImage rows of a page, in their order
GalleryLists ==
    {[i \in 1..n |-> [url |-> "http://testserver/media/cleaning/gallery.jpg",
                      caption_en |-> "caption-en",
                      caption_ja |-> IF i = 1 THEN "" ELSE "caption-ja"]] :
        n \in 0..MaxGallery}

\* CleaningServicePage rows
CleaningRows ==
    [title_en : {"title-en"}, title_ja : {"", "title-ja"},
     description_en : {"description-en"},
     description_ja : {"", "description-ja"},
     cta_en : {"cta-en"}, cta_ja : {"", "cta-ja"},
     image : {"", "/media/cleaning/image.jpg"}, updated_at : {1},
     features : FeatureLists, gallery_images : GalleryLists]

\* the cleaning table: empty, one row, or two rows
CleaningTables ==
    {<<>>} \cup {<<row>> : row \in CleaningRows}
           \cup {<<row, [row EXCEPT !.title_en = "older-en",
                                    !.title_ja = "older-ja"]>> :
                    row \in {r \in CleaningRows :
                                /\ r.image = ""
                                /\ r.features = <<>>
                                /\ r.gallery_images = <<>>}}

\* EventsPageSettings rows
EventsPageRows ==
    [title_en : {"", "title-en"}, title_ja : {"", "title-ja"},
     subtitle_en : {"subtitle-en"}, subtitle_ja : {"", "subtitle-ja"},
     hero_image : {"", "/media/events/hero.jpg"}, updated_at : {1}]

\* the events-page table: empty, one row, or two rows
EventsPageTables ==
    {<<>>} \cup {<<row>> : row \in EventsPageRows}
           \cup {<<row, [row EXCEPT !.title_en = "older-en",
                                    !.title_ja = "older-ja"]>> :
                    row \in {r \in EventsPageRows : r.hero_image = ""}}

\* the tables no content view has rows in yet, and the idle requests
InitIdle ==
    /\ users = InitUsers
    /\ tokens = {}
    /\ issued = {}
    /\ registrations = {}
    /\ contact_messages = <<>>
    /\ next_id = 1
    /\ req = [r \in Slots |-> IdleReq]
    /\ now = 1
    /\ strings = {}
    /\ site_text = <<>>

\* the events list, for every page and page_size, bilingual or Japanese,
\* over any event table
InitList ==
    /\ InitIdle
    /\ InitEvents
    /\ mission_pages = <<>>
    /\ cleaning_pages = <<>>
    /\ events_page_settings = <<>>

NextList == EventsListRequest({<<>>, <<"ja">>}, PageInputs, PageSizeInputs)

SpecList == InitList /\ [][NextList]_vars

\* the four content views: one of the four tables holds any of its contents
\* and the others are empty (each view reads its own table only)
InitPages ==
    /\ InitIdle
    /\ \/ /\ InitEvents
          /\ mission_pages = <<>>
          /\ cleaning_pages = <<>>
          /\ events_page_settings = <<>>
       \/ /\ events = <<>>
          /\ mission_pages \in MissionTables
          /\ cleaning_pages = <<>>
          /\ events_page_settings = <<>>
       \/ /\ events = <<>>
          /\ mission_pages = <<>>
          /\ cleaning_pages \in CleaningTables
          /\ events_page_settings = <<>>
       \/ /\ events = <<>>
          /\ mission_pages = <<>>
          /\ cleaning_pages = <<>>
          /\ events_page_settings \in EventsPageTables

\* the events list is asked for its first page, with the default page size
NextPages ==
    \/ EventsListRequest(LangInputs, {<<>>}, {<<>>})
    \/ MissionRequest
    \/ CleaningRequest
    \/ EventsPageRequest

SpecPages == InitPages /\ [][NextPages]_vars

\* the eleven routes of urls.py: one request, to any route with any of its
\* inputs, against the store of two logged-in users and two events, of
\* which the second user has registered for the unlimited one
InitRoutes ==
    /\ users = InitUsers
    /\ tokens = {[key |-> K("a"), user |-> 1], [key |-> K("b"), user |-> 2]}
    /\ issued = {K("a"), K("b")}
    /\ \E c \in Capacities :
          events = (1 :> EventRow(c, 1, "", <<>>)) @@
                   (2 :> EventRow(<<>>, 1, "", <<>>))
    /\ registrations = {[id |-> 1, user |-> 2, event |-> 2]}
    /\ contact_messages = <<>>
    /\ next_id = 2
    /\ req = [r \in Slots |-> IdleReq]
    /\ NoContent

NextRoutes ==
    \/ MissionRequest
    \/ CleaningRequest
    \/ EventsListRequest({<<>>, <<"en">>}, {<<>>}, {<<>>})
    \/ EventsPageRequest
    \/ RegisterRequest(1)
    \/ GetEvent(1)
    \/ IsFull(1)
    \/ Exists(1)
    \/ Insert(1)
    \/ RegisterUserRequest(1, RegisterBodies)
    \/ EmailExists(1)
    \/ UserInsert(1)
    \/ LoginRequest(1, LoginBodies)
    \/ CreateDelete(1)
    \/ CreateInsert(1)
    \/ LogoutRequest(1, Headers)
    \/ LogoutDelete(1)
    \/ ContactRequest(1)
    \/ I18nRequest(1, {En, Ja}, {<<>>, <<Home>>})
    \/ I18nNamespaceRequest(1, {En, Ja}, {Common})

SpecRoutes == InitRoutes /\ [][NextRoutes]_vars

\* =================================================================== claims
\* rows of core_eventregistration held for one (user, event) pair
RowsOf(u, e) == {g \in registrations : g.user = u /\ g.event = e}

\* an authenticated POST to the register route that has been answered
AnsweredRegister(r) ==
    /\ req[r].kind = "register"
    /\ req[r].pc = "done"
    /\ req[r].method = "POST"
    /\ req[r].user # 0

\* r2 is a Register call for the pair of r1
SamePair(r1, r2) ==
    /\ r1 # r2
    /\ AnsweredRegister(r1)
    /\ AnsweredRegister(r2)
    /\ req[r1].user = req[r2].user
    /\ req[r1].event_id = req[r2].event_id

\* C1: capacity invariant - for every event whose capacity is set to N, the
\* number of persisted registrations for that event is at most N in every
\* reachable state, under any interleaving of Register requests.
C1_CapacityInvariant ==
    \A e \in DOMAIN events :
        events[e].capacity # <<>> =>
            Cardinality({g \in registrations : g.event = e})
                <= events[e].capacity[1]

\* C2: uniqueness invariant - in every reachable state the registration
\* store holds at most one row for each (user, event) pair.
C2_UniquenessInvariant ==
    \A g1 \in registrations, g2 \in registrations :
        (g1.user = g2.user /\ g1.event = g2.event) => g1.id = g2.id

\* two overlapping requests of one user for one event both reached the
\* INSERT: one row is stored and the other INSERT was refused
C2_Witness ==
    \E r1 \in Slots, r2 \in Slots :
        /\ SamePair(r1, r2)
        /\ req[r1].status = 201
        /\ req[r2].status = 500
        /\ Cardinality(RowsOf(req[r1].user, req[r1].event_id)) = 1

\* C3: a second Register call for the pair of a successful one always ends
\* as a Conflict (400) that inserts nothing, whether it follows the first or
\* overlaps with it; never as a success nor as an unhandled store error.
C3_SecondRegisterConflicts ==
    \A r1 \in Slots, r2 \in Slots :
        (SamePair(r1, r2) /\ req[r1].status = 201) =>
            (req[r2].status = 400 /\ req[r2].inserted = 0)

\* r2 repeats, after r1 was answered 201, the Register call of r1
RepeatOf(r1, r2) ==
    /\ SamePair(r1, r2)
    /\ r1 \in req[r2].after
    /\ req[r1].status = 201

\* C4 as stated: a Register call by a user who already holds a registration
\* for that event (the repeated call of the round trip) is answered 400
\* with detail "Already registered.".
C4_RepeatAlreadyRegistered ==
    \A r1 \in Slots, r2 \in Slots :
        RepeatOf(r1, r2) =>
            (req[r2].status = 400 /\ req[r2].detail = "Already registered.")

\* C4 amended: the repeated call is answered 400 and inserts nothing; its
\* detail is "Event is full." when the capacity is set and the count read by
\* the capacity check has reached it (always so for capacity 1), and
\* "Already registered." otherwise.
C4_RepeatRejected ==
    \A r1 \in Slots, r2 \in Slots :
        RepeatOf(r1, r2) =>
            LET cap == events[req[r2].event_id].capacity
            IN  /\ req[r2].status = 400
                /\ req[r2].inserted = 0
                /\ req[r2].detail =
                      IF cap # <<>> /\ req[r2].count >= cap[1]
                      THEN "Event is full." ELSE "Already registered."
                /\ cap = <<1>> => req[r2].detail = "Event is full."

\* the round trip on a capacity-limited event: 201, then 400 "Event is full."
C4_Witness ==
    \E r1 \in Slots, r2 \in Slots :
        /\ RepeatOf(r1, r2)
        /\ events[req[r2].event_id].capacity = <<MaxCapacity>>
        /\ req[r2].detail = "Event is full."

\* a login that Token.create answered with a key
IssuedLogin(r) ==
    req[r].kind = "login" /\ req[r].pc = "done" /\ req[r].status = 200

\* b is a Token.create for the user of a, called after a returned
CreateAfter(a, b) ==
    /\ IssuedLogin(a)
    /\ IssuedLogin(b)
    /\ req[a].user = req[b].user
    /\ a \in req[b].after

\* C5: single active token - when Token.create(user) is called twice in
\* succession, the key returned by the first call no longer validates once
\* the second call has completed: a token-protected request presenting it
\* is answered 401.
C5_FirstKeyInvalidated ==
    \A a \in Slots, b \in Slots :
        CreateAfter(a, b) =>
            LET answer == require_token(Prefix \o req[a].key, tokens)
            IN  ~answer.ok /\ answer.status = 401

\* two logins of one user in succession, the second key being the one stored
C5_Witness ==
    \E a \in Slots, b \in Slots :
        /\ CreateAfter(a, b)
        /\ [key |-> req[b].key, user |-> req[b].user] \in tokens

\* C6: at most one valid token per user - once the Token.create calls have
\* completed (none is between its delete and its insert), the token store
\* holds at most one token owned by each user, also after concurrent logins.
C6_OneTokenPerUser ==
    (\A r \in Slots : req[r].pc \notin {"create_delete", "create_insert"}) =>
        \A u \in users : Cardinality({t \in tokens : t.user = u.id}) <= 1

\* the key an Authorization header of the form "Token <key>" presents
PresentedKey(header) == Strip(Drop(header, Len(Prefix)))

\* a POST to the logout route that has been answered, whose header has the
\* Token prefix
AnsweredLogout(r) ==
    /\ req[r].kind = "logout"
    /\ req[r].pc = "done"
    /\ StartsWith(req[r].header, Prefix)

\* C7 as stated: revoke is idempotent - POST /auth/logout/ presenting a key
\* that is unknown or was already revoked is answered 200, so every logout
\* that presents "Token <key>" is answered 200.
C7_LogoutAlways200 ==
    \A r \in Slots :
        (AnsweredLogout(r) /\ req[r].method = "POST") => req[r].status = 200

\* the key r presents was never issued, or an earlier logout, answered 200
\* before r started, has deleted it
PresentsRevokedKey(r) ==
    /\ AnsweredLogout(r)
    /\ \/ PresentedKey(req[r].header) \notin issued
       \/ \E q \in req[r].after :
             /\ req[q].kind = "logout"
             /\ req[q].status = 200
             /\ logout_key(req[q].header) = PresentedKey(req[r].header)

\* C7 amended: a logout presenting a key that was never issued or that an
\* earlier completed logout has deleted is answered 401, and a logout
\* answered 401 leaves the token store unchanged (a no-op, but not a success).
C7_RevokedKeyRejected ==
    [][/\ \A r \in Slots : PresentsRevokedKey(r)' => req'[r].status = 401
       /\ \A r \in Slots :
             (req[r].pc = "idle" /\ req'[r].kind = "logout"
                /\ req'[r].status = 401) => tokens' = tokens]_vars

\* logout twice with the same header: 200, then 401
C7_Witness ==
    \E q \in Slots, r \in Slots :
        /\ AnsweredLogout(r)
        /\ q \in req[r].after
        /\ req[q].kind = "logout"
        /\ req[q].status = 200
        /\ req[q].header = req[r].header
        /\ req[r].status = 401

\* a request to a token-protected route that is past require_token
PastRequireToken(r) ==
    req[r].kind = "register" /\ req[r].pc # "idle"

TokenKeys == {t.key : t \in tokens}

\* C8 as stated: the request is passed to its handler, with request.user
\* set, if and only if the header begins with "Token " and the remainder is
\* the key of a token in the store.
C8_ValidateExactRemainder ==
    \A r \in Slots :
        PastRequireToken(r) =>
            (req[r].user # 0 <=>
                (/\ StartsWith(req[r].header, Prefix)
                 /\ Drop(req[r].header, Len(Prefix)) \in TokenKeys))

\* C8 amended: the request is passed to its handler, with request.user set
\* to the token's owner, if and only if the header begins with the exact
\* literal "Token " and the remainder, with leading and trailing blanks
\* stripped, is the key of a token in the store; otherwise it is answered 401.
C8_ValidateStrippedRemainder ==
    \A r \in Slots :
        PastRequireToken(r) =>
            IF /\ StartsWith(req[r].header, Prefix)
               /\ PresentedKey(req[r].header) \in TokenKeys
            THEN /\ [key |-> PresentedKey(req[r].header), user |-> req[r].user]
                        \in tokens
                 /\ req[r].status # 401
            ELSE /\ req[r].user = 0
                 /\ req[r].pc = "done"
                 /\ req[r].status = 401

\* a header with blanks around a stored key reached the handler
C8_Witness ==
    \E r \in Slots :
        /\ PastRequireToken(r)
        /\ req[r].header = Prefix \o <<" ">> \o K("a") \o <<" ">>
        /\ req[r].user = 1

\* the answer the claim gives a Register call on the store as it stands
RegisterAnswer(r) ==
    LET e == req[r].event_id
        u == req[r].user
    IN  IF e \notin DOMAIN events
        THEN [status |-> 404, detail |-> "Event not found."]
        ELSE IF /\ events[e].capacity # <<>>
                /\ Cardinality({g \in registrations : g.event = e})
                        >= events[e].capacity[1]
        THEN [status |-> 400, detail |-> "Event is full."]
        ELSE IF RowsOf(u, e) # {}
        THEN [status |-> 400, detail |-> "Already registered."]
        ELSE [status |-> 201, detail |-> "Registered successfully."]

\* every other request was answered before r started, or has not started
RunsAlone(r) ==
    \A q \in Slots \ {r} : req[q].pc = "idle" \/ q \in req[r].after

\* r, an authenticated POST to the register route, is answered in this step
RegisterAnswered(r) ==
    /\ req[r].kind = "register"
    /\ req[r].pc \in {"get_event", "is_full", "exists", "insert"}
    /\ req'[r].pc = "done"

\* C9: Register resolves an authenticated request in a fixed order - unknown
\* event 404; else capacity set and count >= capacity 400 "Event is full.";
\* else an existing (user, event) row 400 "Already registered."; else
\* exactly one row is inserted and 201 is returned; a failing call inserts
\* nothing.  (The store is the one the request ran against: no other
\* request was in flight while it ran.)
C9_RegisterOrder ==
    [][\A r \in Slots :
          RegisterAnswered(r) =>
            /\ req'[r].status # 201 => registrations' = registrations
            /\ RunsAlone(r) =>
                 /\ req'[r].status = RegisterAnswer(r).status
                 /\ req'[r].detail = RegisterAnswer(r).detail
                 /\ req'[r].status = 201 =>
                      \E g \in registrations' :
                         /\ g \notin registrations
                         /\ g.user = req[r].user
                         /\ g.event = req[r].event_id
                         /\ registrations' = registrations \cup {g}]_vars

\* after a 201 on the unlimited event the same call is answered
\* "Already registered.", and a call for an unknown event 404
C9_Witness ==
    \E r1 \in Slots, r2 \in Slots :
        /\ SamePair(r1, r2)
        /\ r1 \in req[r2].after
        /\ req[r1].status = 201
        /\ events[req[r1].event_id].capacity = <<>>
        /\ req[r2].detail = "Already registered."

\* the header does not authenticate: no prefix, or a key not in the store
Unauthenticated(header) ==
    \/ ~StartsWith(header, Prefix)
    \/ PresentedKey(header) \notin TokenKeys

\* C10: registration requires authentication - a request to the register
\* route whose Authorization header is missing, malformed or carries an
\* unknown key is answered 401 and inserts no registration, whether or not
\* the event exists and whatever its capacity.
C10_RegisterRequiresAuth ==
    /\ \A r \in Slots :
          (PastRequireToken(r) /\ Unauthenticated(req[r].header)) =>
              /\ req[r].pc = "done"
              /\ req[r].status = 401
              /\ req[r].inserted = 0
    /\ \A g \in registrations : \E t \in tokens : t.user = g.user
    /\ Cardinality(registrations)
          = Cardinality({r \in Slots : req[r].inserted = 1})

\* a POST for a stored event with an unknown key was answered 401
C10_Witness ==
    \E r \in Slots :
        /\ PastRequireToken(r)
        /\ req[r].header = Prefix \o MixedKey
        /\ req[r].method = "POST"
        /\ req[r].event_id \in DOMAIN events
        /\ req[r].status = 401
        /\ registrations = {}
    /\ contact_messages = <<>>

\* ---------------------------------------------------------------------------
\* the answered requests to the events list
ListAnswered == req[1].kind = "events_list" /\ req[1].status = 200

\* C11: whatever page_size and page a request to the events list carries,
\* the page_size reported and used lies in [1,100], a page_size above 100 is
\* reported as 100, a non-numeric or absent page_size is reported as 9 and a
\* non-numeric or absent page as page 1, and a GET request is always
\* answered 200.
C11_PageSizeClamp ==
    /\ req[1].kind = "events_list" /\ req[1].method = "GET" => ListAnswered
    /\ ListAnswered =>
          LET size == req[1].payload.page_size
              n == int(Get(req[1].page_size, <<"9">>))
              p == int(Get(req[1].page, <<"1">>))
          IN  /\ size \in 1..100
              /\ n # <<>> /\ n[1] > 100 => size = 100
              /\ n # <<>> /\ n[1] \in 1..100 => size = n[1]
              /\ n = <<>> => size = 9
              /\ p = <<>> => req[1].payload.page = 1
              /\ Len(req[1].payload.results) <= size

\* a page_size above 100 was sent with a non-numeric page: 100 and page 1
\* were reported
C11_Witness ==
    /\ ListAnswered
    /\ req[1].page_size = <<<<"1", "0", "1">>>>
    /\ req[1].page = <<<<"x">>>>
    /\ req[1].payload.page_size = 100
    /\ req[1].payload.page = 1

\* C12 as stated: a request with page_size=0 is answered with the default
\* page size 9, as a non-numeric page_size is.
C12_ZeroFallsBackToDefault ==
    ListAnswered /\ int(Get(req[1].page_size, <<"9">>)) = <<0>> =>
        req[1].payload.page_size = 9

\* C12, amended: a request with page_size=0 is answered with page size 1
\* (the response reports page_size 1 and its window holds one event when
\* there is any); a page_size that is not a number is answered with the
\* default 9.
C12_ZeroClampedToOne ==
    ListAnswered =>
        LET n == int(Get(req[1].page_size, <<"9">>))
            body == req[1].payload
        IN  /\ n = <<0>> =>
                /\ body.page_size = 1
                /\ body.total_pages = Max(body.total, 1)
                /\ Len(body.results) = Min(body.total, 1)
            /\ n = <<>> => body.page_size = 9

\* page_size=0 was sent against two or more listed events: one came back
C12_Witness ==
    /\ ListAnswered
    /\ req[1].page_size = <<<<"0">>>>
    /\ req[1].payload.total >= 2
    /\ req[1].payload.page_size = 1
    /\ Len(req[1].payload.results) = 1

\* C13: the page reported by the events list satisfies
\* 1 <= page <= total_pages; a requested page beyond total_pages is answered
\* with the last page; and whenever total > 0 the results are not empty.
C13_PageClamp ==
    ListAnswered =>
        LET body == req[1].payload
            p == int(Get(req[1].page, <<"1">>))
        IN  /\ 1 <= body.page /\ body.page <= body.total_pages
            /\ p # <<>> /\ p[1] > body.total_pages =>
                  body.page = body.total_pages
            /\ p # <<>> /\ p[1] \in 1..body.total_pages => body.page = p[1]
            /\ body.total > 0 => body.results # <<>>

\* page 7 was requested of a list of more than one page: the last page came
\* back, with an event on it
C13_Witness ==
    /\ ListAnswered
    /\ req[1].page = <<<<"7">>>>
    /\ req[1].payload.total_pages > 1
    /\ req[1].payload.page = req[1].payload.total_pages
    /\ req[1].payload.results # <<>>

\* ---------------------------------------------------------------------------
\* the registrations of an event
RowsOfEvent(e) == {g \in registrations : g.event = e}

\* C14: in every reachable state and for every event, available_slots is
\* absent (not 0) when the capacity is unset, and is capacity minus the
\* number of registrations, floored at zero, when it is set; it is never
\* negative, also when the registrations exceed the capacity.
C14_AvailableSlots ==
    \A e \in DOMAIN events :
        LET capacity == events[e].capacity
            taken == Cardinality(RowsOfEvent(e))
            slots == available_slots(capacity,
                                     RegistrationCount(registrations, e))
        IN  /\ capacity = <<>> => slots = <<>>
            /\ capacity # <<>> =>
                  /\ Len(slots) = 1
                  /\ slots[1] >= 0
                  /\ taken <= capacity[1] => slots[1] = capacity[1] - taken
                  /\ taken > capacity[1] => slots[1] = 0

\* an event holds more registrations than its capacity and reports 0 slots
C14_Witness ==
    \E e \in DOMAIN events :
        /\ events[e].capacity # <<>>
        /\ Cardinality(RowsOfEvent(e)) > events[e].capacity[1]
        /\ available_slots(events[e].capacity,
                           RegistrationCount(registrations, e)) = <<0>>

\* ---------------------------------------------------------------------------
\* the answered requests to the merged and to the single-namespace endpoint
MergedAnswered(r) == req[r].kind = "i18n" /\ req[r].status = 200

NamespaceAnswered(r) == req[r].kind = "i18n_namespace" /\ req[r].status = 200

\* the rows request r read that define key k in namespace ns
Defining(r, ns, k) ==
    {row \in req[r].matched : row.namespace = ns /\ row.key = k}

\* the keys request r found in its requested namespaces
DefinedKeys(r) == {row.key : row \in req[r].matched}

\* is key k of a merged response taken from the overlay?
Overlaid(k) == site_text # <<>> /\ k \in OverlayKeys

\* C15: the merged endpoint returns, for every key defined (for the
\* language) in at least one requested namespace and not overridden by the
\* site-text overlay, the text of the last namespace, in the requested
\* order, that defines the key.
C15_MergePrecedence ==
    \A r \in Slots : MergedAnswered(r) =>
        LET namespaces == namespaces_of(req[r].ns)
        IN  \A k \in DefinedKeys(r) : ~Overlaid(k) =>
                LET last == CHOOSE i \in DOMAIN namespaces :
                                /\ Defining(r, namespaces[i], k) # {}
                                /\ \A j \in DOMAIN namespaces :
                                      j > i =>
                                        Defining(r, namespaces[j], k) = {}
                IN  /\ k \in DOMAIN req[r].payload
                    /\ \A row \in Defining(r, namespaces[last], k) :
                          req[r].payload[k] = row.text

\* ns=common,home was requested in English: "title", which both define,
\* came back with the text of home
C15_Witness ==
    \E r \in Slots :
        /\ MergedAnswered(r)
        /\ req[r].lang = En
        /\ req[r].ns = <<Common \o <<",">> \o Home>>
        /\ Defining(r, Common, "title") # {}
        /\ Defining(r, Home, "title") # {}
        /\ req[r].payload["title"] = "home-title"

\* the column of SiteTextSettings that holds the label of key k
Column(k, suffix) ==
    IF k = "instagram_url" THEN k
    ELSE IF k \in {"home", "events", "cleaning"} THEN k \o "_label" \o suffix
    ELSE k \o suffix

\* C16: when a SiteTextSettings row exists, the merged response carries, for
\* each of the ten label keys, the value of the first row's column for the
\* requested language (the _ja column for ja, the _en column otherwise),
\* whatever the namespace rows say; the other keys keep their namespace
\* value; and the single-namespace endpoint returns the namespace rows only.
C16_OverlayPrecedence ==
    \A r \in Slots :
        /\ MergedAnswered(r) =>
            /\ site_text # <<>> =>
                  \A k \in OverlayKeys :
                      /\ k \in DOMAIN req[r].payload
                      /\ req[r].payload[k] =
                            Head(site_text)[
                                Column(k, IF req[r].lang = Ja
                                          THEN "_ja" ELSE "_en")]
            /\ \A k \in DOMAIN req[r].payload : ~Overlaid(k) =>
                  \E row \in req[r].matched :
                      row.key = k /\ row.text = req[r].payload[k]
        /\ NamespaceAnswered(r) =>
            /\ DOMAIN req[r].payload = DefinedKeys(r)
            /\ \A row \in req[r].matched :
                  req[r].payload[row.key] = row.text

\* an English request got the "home" of the first SiteTextSettings row
\* although the common namespace defines that key, and the "title" of the
\* namespace
C16_Witness ==
    \E r \in Slots :
        /\ MergedAnswered(r)
        /\ site_text # <<>>
        /\ req[r].lang = En
        /\ Defining(r, Common, "home") # {}
        /\ req[r].payload["home"] = "first:Home"
        /\ req[r].payload["title"] = "common-title"

\* ---------------------------------------------------------------------------
I18nAnswered(r) == MergedAnswered(r) \/ NamespaceAnswered(r)

\* two answered requests to the same endpoint with the same inputs
SameI18nInputs(r1, r2) ==
    /\ I18nAnswered(r1) /\ I18nAnswered(r2)
    /\ req[r1].kind = req[r2].kind
    /\ req[r1].lang = req[r2].lang
    /\ req[r1].ns = req[r2].ns
    /\ req[r1].namespace = req[r2].namespace

\* the latest updated_at among the rows request r read
LatestOf(r) ==
    CHOOSE t \in {row.updated_at : row \in req[r].matched} :
        \A row \in req[r].matched : row.updated_at <= t

\* C17: both i18n endpoints omit the ETag exactly when no row matched the
\* language and namespace(s); otherwise the ETag is the one formed from the
\* whole seconds of the maximum updated_at over the matched rows; and two
\* requests with the same inputs that read the same rows carry the same
\* ETag.
C17_ValidatorDerivation ==
    \A r \in Slots : I18nAnswered(r) =>
        /\ req[r].etag = <<>> <=> req[r].matched = {}
        /\ req[r].matched # {} =>
              req[r].etag =
                  <<IF MergedAnswered(r)
                    THEN merged_etag(req[r].lang, LatestOf(r))
                    ELSE namespace_etag(req[r].lang, req[r].namespace,
                                        LatestOf(r))>>
        /\ \A q \in Slots :
              SameI18nInputs(r, q) /\ req[r].matched = req[q].matched =>
                  req[r].etag = req[q].etag

\* two merged requests with the same inputs read the same rows, whose
\* timestamps lie in different seconds, and carry the same ETag
C17_Witness ==
    \E r, q \in Slots :
        /\ r # q
        /\ SameI18nInputs(r, q)
        /\ MergedAnswered(r)
        /\ req[r].matched = req[q].matched
        /\ \E x, y \in req[r].matched :
              Seconds(x.updated_at) # Seconds(y.updated_at)
        /\ req[r].etag # <<>>
        /\ req[r].etag = req[q].etag

\* has the timestamp of a row that both requests read changed in between?
TimestampChanged(r1, r2) ==
    \E x \in req[r1].matched, y \in req[r2].matched :
        /\ x.namespace = y.namespace /\ x.key = y.key
        /\ x.language = y.language
        /\ x.updated_at # y.updated_at

\* C18: for two requests with the same inputs, one after the other, if the
\* update timestamp of a row contributing to the response changed in
\* between, the second validator differs from the first.
C18_ValidatorSensitive ==
    \A r1, r2 \in Slots :
        /\ SameI18nInputs(r1, r2)
        /\ r1 \in req[r2].after
        /\ TimestampChanged(r1, r2)
        => req[r1].etag # req[r2].etag

\* ---------------------------------------------------------------------------
\* the bilingual fields of the payload (or list item) of each content view
Translatable(kind) ==
    CASE kind = "mission" -> {"title", "body"}
      [] kind = "cleaning" -> {"title", "description", "cta"}
      [] kind = "events_page" -> {"title", "subtitle"}
      [] kind = "events_list" -> {"title", "description"}

\* what a page view serves: the first stored row, or the built-in defaults
PageSource(kind) ==
    CASE kind = "mission" ->
            IF mission_pages = <<>> THEN MissionDefaults
            ELSE Head(mission_pages)
      [] kind = "cleaning" ->
            IF cleaning_pages = <<>> THEN CleaningDefaults
            ELSE Head(cleaning_pages)
      [] kind = "events_page" ->
            IF events_page_settings = <<>> THEN EventsPageDefaults
            ELSE Head(events_page_settings)

\* the single-language flattened shape: the unsuffixed fields, with the
\* values of the language
SingleLanguage(payload, source, fields, code) ==
    \A f \in fields :
        /\ f \in DOMAIN payload
        /\ payload[f] = source[f \o "_" \o code]
        /\ (f \o "_en") \notin DOMAIN payload
        /\ (f \o "_ja") \notin DOMAIN payload

\* the bilingual shape: both suffixed fields
Bilingual(payload, source, fields) ==
    \A f \in fields :
        /\ f \notin DOMAIN payload
        /\ (f \o "_en") \in DOMAIN payload
        /\ (f \o "_ja") \in DOMAIN payload
        /\ payload[f \o "_en"] = source[f \o "_en"]
        /\ payload[f \o "_ja"] = source[f \o "_ja"]

Shaped(payload, source, fields, lang) ==
    IF lang \in {<<"en">>, <<"ja">>}
    THEN SingleLanguage(payload, source, fields, lang[1])
    ELSE Bilingual(payload, source, fields)

\* an answered request to one of the three page views
PageAnswered ==
    /\ req[1].kind \in {"mission", "cleaning", "events_page"}
    /\ req[1].status = 200

\* C19: on /mission/, /cleaning-service/, /events/ and /events-page/, a lang
\* of exactly en or ja yields the unsuffixed title/body/description/cta/
\* subtitle fields (and feature texts) with that language's values and no
\* suffixed ones, and an absent or other lang yields both the _en and the
\* _ja fields; for stored rows and for the built-in defaults.
C19_LanguageResolution ==
    /\ PageAnswered =>
          Shaped(req[1].payload, PageSource(req[1].kind),
                 Translatable(req[1].kind), req[1].lang)
    /\ PageAnswered /\ req[1].kind = "cleaning" =>
          LET features == req[1].payload.features
              source == PageSource("cleaning").features
          IN  /\ Len(features) = Len(source)
              /\ \A i \in DOMAIN features :
                    IF req[1].lang \in {<<"en">>, <<"ja">>}
                    THEN /\ DOMAIN features[i] = {"text", "color"}
                         /\ req[1].lang = <<"en">> =>
                               features[i].text = source[i].text_en
                    ELSE features[i] = source[i]
    /\ ListAnswered =>
          \A i \in DOMAIN req[1].payload.results :
              LET item == req[1].payload.results[i]
              IN  Shaped(item, events[item.id], Translatable("events_list"),
                         req[1].lang)

\* a stored cleaning page was asked for in Japanese and came back flattened
C19_Witness ==
    /\ PageAnswered
    /\ req[1].kind = "cleaning"
    /\ cleaning_pages # <<>>
    /\ req[1].lang = <<"ja">>
    /\ req[1].payload.title = "title-ja"
    /\ "title_ja" \notin DOMAIN req[1].payload

\* C20: with lang=ja a stored cleaning feature whose text_ja is empty is
\* returned with its text_en, and with its text_ja otherwise; every other
\* field of the four views carries the requested language's column even
\* when that is empty; and lang=en never returns a Japanese text.
C20_FallbackAsymmetry ==
    /\ PageAnswered /\ req[1].kind = "cleaning" /\ cleaning_pages # <<>> =>
          LET features == req[1].payload.features
              source == Head(cleaning_pages).features
          IN  \A i \in DOMAIN source :
                /\ req[1].lang = <<"ja">> =>
                      features[i].text =
                          IF source[i].text_ja = "" THEN source[i].text_en
                          ELSE source[i].text_ja
                /\ req[1].lang = <<"en">> =>
                      features[i].text = source[i].text_en
    /\ PageAnswered /\ req[1].lang \in {<<"en">>, <<"ja">>} =>
          \A f \in Translatable(req[1].kind) :
              req[1].payload[f] =
                  PageSource(req[1].kind)[f \o "_" \o req[1].lang[1]]
    /\ ListAnswered /\ req[1].lang \in {<<"en">>, <<"ja">>} =>
          \A i \in DOMAIN req[1].payload.results :
              LET item == req[1].payload.results[i]
              IN  \A f \in Translatable("events_list") :
                      item[f] = events[item.id][f \o "_" \o req[1].lang[1]]

\* a Japanese request got the English text of a feature without Japanese
\* text, and the empty Japanese title of the page
C20_Witness ==
    /\ PageAnswered
    /\ req[1].kind = "cleaning"
    /\ req[1].lang = <<"ja">>
    /\ cleaning_pages # <<>>
    /\ Head(cleaning_pages).title_ja = ""
    /\ req[1].payload.title = ""
    /\ \E i \in DOMAIN req[1].payload.features :
          /\ Head(cleaning_pages).features[i].text_ja = ""
          /\ req[1].payload.features[i].text = "feature-en"

\* ---------------------------------------------------------------------------
\* the table a page view reads, and its built-in defaults
PageTable(kind) ==
    CASE kind = "mission" -> mission_pages
      [] kind = "cleaning" -> cleaning_pages
      [] kind = "events_page" -> events_page_settings

PageDefaults(kind) ==
    CASE kind = "mission" -> MissionDefaults
      [] kind = "cleaning" -> CleaningDefaults
      [] kind = "events_page" -> EventsPageDefaults

\* the image field of a page view
ImageField(kind) == IF kind = "cleaning" THEN "image" ELSE "hero_image"

\* a GET request to one of the three page views was answered
PageGot ==
    /\ req[1].kind \in {"mission", "cleaning", "events_page"}
    /\ req[1].method = "GET"

\* C21: a GET of /mission/, /cleaning-service/ or /events-page/ is answered
\* 200, never 404; with no row of the page model the payload is the built-in
\* defaults in the shape the lang asks for (no image, no updated_at), and
\* with at least one row it is made of the first row and not of the defaults.
C21_EmptyStoreDefaults ==
    PageGot =>
        LET kind == req[1].kind
            payload == req[1].payload
            table == PageTable(kind)
        IN  /\ req[1].status = 200
            /\ table = <<>> =>
                  /\ Shaped(payload, PageDefaults(kind), Translatable(kind),
                            req[1].lang)
                  /\ payload[ImageField(kind)] = <<>>
                  /\ "updated_at" \notin DOMAIN payload
                  /\ req[1].lang \notin {<<"en">>, <<"ja">>} =>
                        payload = PageDefaults(kind)
                  /\ kind = "cleaning" =>
                        /\ Len(payload.features) =
                              Len(CleaningDefaults.features)
                        /\ req[1].lang = <<"ja">> =>
                              \A i \in DOMAIN payload.features :
                                  payload.features[i].text =
                                      CleaningDefaults.features[i].text_ja
            /\ table # <<>> =>
                  /\ Shaped(payload, Head(table), Translatable(kind),
                            req[1].lang)
                  /\ payload[ImageField(kind)] =
                        image_url(Head(table)[ImageField(kind)])

\* the mission page was asked for in Japanese while no row was stored, and
\* the default texts came back
C21_Witness ==
    /\ PageGot
    /\ req[1].kind = "mission"
    /\ mission_pages = <<>>
    /\ req[1].lang = <<"ja">>
    /\ req[1].status = 200
    /\ req[1].payload.body = "House of Bijou ha"

\* ---------------------------------------------------------------------------
\* the single verb a route allows
AllowedVerb(kind) ==
    IF kind \in {"register", "register_user", "login", "logout", "contact"}
    THEN "POST" ELSE "GET"

\* the routes behind @require_token
TokenProtected(kind) == kind \in {"register", "logout"}

\* the detail of a response
Detail(q) == IF "detail" \in DOMAIN q THEN q.detail ELSE q.payload.detail

\* everything the store holds
store == <<users, tokens, events, registrations, contact_messages, next_id,
           content>>

\* C22 as stated: on every route a request whose verb is not the allowed one
\* is answered 405 "Method not allowed.", on the token-protected routes too.
C22_MethodCheck ==
    req[1].kind # "none" /\ req[1].method # AllowedVerb(req[1].kind) =>
        /\ req[1].pc = "done"
        /\ req[1].status = 405
        /\ Detail(req[1]) = "Method not allowed."

\* C22 (amended): a request whose verb is not the route's allowed one is
\* answered at once and changes no stored state; on the nine routes without
\* token protection it is answered 405 "Method not allowed."; on the two
\* token-protected routes the token is checked first, so that it is answered
\* 401 unless it presents a valid token and 405 when it does.
C22_MethodCheckAfterToken ==
    [][ /\ req[1].pc = "idle"
        /\ req'[1].pc # "idle"
        /\ req'[1].method # AllowedVerb(req'[1].kind)
        => /\ req'[1].pc = "done"
           /\ store' = store
           /\ IF /\ TokenProtected(req'[1].kind)
                 /\ ~require_token(req'[1].header, tokens).ok
              THEN req'[1].status = 401
              ELSE /\ req'[1].status = 405
                   /\ Detail(req'[1]) = "Method not allowed."
      ]_vars

\* a GET of the logout route that presented a valid token was answered 405
C22_Witness ==
    /\ req[1].kind = "logout"
    /\ req[1].method = "GET"
    /\ req[1].header = Prefix \o K("a")
    /\ req[1].status = 405
    /\ tokens = {[key |-> K("a"), user |-> 1], [key |-> K("b"), user |-> 2]}

\* ---------------------------------------------------------------------------
\* the message of the required-field validation of a view
RequiredDetail(kind) ==
    CASE kind = "register_user" ->
            "Username, email and password are required."
      [] kind = "login" -> "Username and password are required."
      [] kind = "contact" -> "Name, email and message are required."

\* C23: a POST to /auth/register/, /auth/login/ or /contact/ whose body is
\* empty or cannot be decoded and parsed as JSON is answered 400 by the
\* required-field validation, and creates no user, no token and no contact
\* message.
C23_MalformedBody ==
    [][ /\ req[1].pc = "idle"
        /\ req'[1].kind \in {"register_user", "login", "contact"}
        /\ req'[1].method = "POST"
        /\ req'[1].body \in Unparsed
        => /\ req'[1].pc = "done"
           /\ req'[1].status = 400
           /\ req'[1].detail = RequiredDetail(req'[1].kind)
           /\ users' = users
           /\ tokens' = tokens
           /\ contact_messages' = contact_messages
      ]_vars

\* a contact form whose body was not JSON was answered 400 and not stored
C23_Witness ==
    /\ req[1].kind = "contact"
    /\ req[1].method = "POST"
    /\ req[1].body = [t |-> "malformed"]
    /\ req[1].status = 400
    /\ contact_messages = <<>>

\* ---------------------------------------------------------------------------
\* an answered POST to register_user_view
Registered(r) ==
    /\ req[r].kind = "register_user"
    /\ req[r].method = "POST"
    /\ req[r].pc = "done"

\* a member of the body is missing or blank: the body holds no object, or
\* the object no such member, or null, or a text that is empty (for the
\* username and the email: once stripped)
Blank(body, name) ==
    LET data == parse_request_body(body)
    IN  \/ data.t # "object"
        \/ get(data, name, Str(<<>>)).t # "string"
        \/ IF name = "password" THEN get(data, name, Str("")).v = ""
           ELSE Stripped(data, name) = <<>>

\* C24: POST /auth/register/ is answered 400, creating neither user nor
\* token, when username, email or password is missing or blank or when the
\* username or the email belongs to an existing user; otherwise it creates
\* one user and one token and is answered 201 with the token's key, of the
\* generated length and alphabet, which validates as that user.
C24_AccountRegistration ==
    \A r \in Slots :
        Registered(r) =>
            /\ req[r].status \in {400, 201}
            /\ (\E f \in {"username", "email", "password"} :
                    Blank(req[r].body, f)) => req[r].status = 400
            /\ req[r].status = 400 =>
                  /\ req[r].inserted = 0
                  /\ req[r].key = <<>>
            /\ req[r].status = 201 =>
                  /\ req[r].inserted = 1
                  /\ req[r].key \in generate_key(KeyLength)
                  /\ \E u \in users :
                        /\ u.id = req[r].user
                        /\ u.username = req[r].username
                        /\ u.email = req[r].email
                  /\ require_token(Prefix \o req[r].key, tokens).ok
                  /\ require_token(Prefix \o req[r].key, tokens).user
                        = req[r].user

\* ---------------------------------------------------------------------------
\* slot r starts a POST to login_view in this step
LoginStarts(r) ==
    /\ req[r].pc = "idle"
    /\ req'[r].kind = "login"
    /\ req'[r].method = "POST"

\* C25: POST /auth/login/ is answered 400 when username or password is
\* missing and 401 when the credential store rejects the pair, in both cases
\* leaving the token store unchanged; only on accepted credentials does it
\* go on to Token.create, and only then is it answered 200 with the new key.
C25_Login ==
    [][ \A r \in Slots :
          /\ LoginStarts(r) =>
                LET b == req'[r].body
                    missing == Blank(b, "username") \/ Blank(b, "password")
                    accepted ==
                        ~missing /\
                        authenticate(users, Stripped(b.value, "username"),
                                     get(b.value, "password", Str("")).v) # {}
                IN  /\ tokens' = tokens
                    /\ missing => req'[r].status = 400
                    /\ ~missing /\ ~accepted => req'[r].status = 401
                    /\ req'[r].pc = "create_delete" <=> accepted
                    /\ req'[r].pc # "create_delete" => req'[r].pc = "done"
          /\ req'[r].kind = "login" /\ req[r].status # 200
             /\ req'[r].status = 200 =>
                /\ req[r].pc = "create_insert"
                /\ req'[r].key \in generate_key(KeyLength)
                /\ [key |-> req'[r].key, user |-> req[r].user] \in tokens'
      ]_vars

\* ---------------------------------------------------------------------------
\* C26: the pagination metadata of the events list agrees with itself:
\* total_pages is ceil(total / page_size), and 1 when total is 0; results is
\* the window [(page-1)*page_size, page*page_size) of the listed events in
\* descending order of start time, of length
\* min(page_size, total - (page-1)*page_size) when total > 0 and empty
\* otherwise; has_next holds exactly when page < total_pages and has_prev
\* exactly when page > 1.
C26_PaginationMetadata ==
    ListAnswered =>
        LET b == req[1].payload
            listed == ListedEvents(include_past_of(req[1].past))
            offset == (b.page - 1) * b.page_size
        IN  /\ b.total = Cardinality(listed)
            /\ IF b.total = 0 THEN b.total_pages = 1
               ELSE /\ b.total_pages * b.page_size >= b.total
                    /\ (b.total_pages - 1) * b.page_size < b.total
            /\ Len(b.results) =
                  IF b.total > 0 THEN Min(b.page_size, b.total - offset)
                  ELSE 0
            /\ \E o \in Orders(listed) :
                  \A i \in DOMAIN b.results : b.results[i].id = o[offset + i]
            /\ b.has_next <=> b.page < b.total_pages
            /\ b.has_prev <=> b.page > 1

\* the second of two pages of size 2 over three events: one event on it, a
\* page before it and none after it
C26_Witness ==
    /\ ListAnswered
    /\ req[1].payload.total = 3
    /\ req[1].payload.page_size = 2
    /\ req[1].payload.page = 2
    /\ req[1].payload.total_pages = 2
    /\ Len(req[1].payload.results) = 1
    /\ req[1].payload.has_prev
    /\ ~req[1].payload.has_next

\* ---------------------------------------------------------------------------
\* slot r is answered 201 by event_register_view in this step
RegisterSucceeds(r) ==
    /\ req'[r].kind = "register"
    /\ req[r].status # 201
    /\ req'[r].status = 201

\* C27: a successful Register inserts exactly one registration row, for the
\* requesting user and the event, and leaves the events with their
\* capacities, every other registration, the tokens and the users unchanged;
\* no step of any route changes or removes a stored registration or adds one
\* otherwise, so that no event's registration count ever decreases.
C27_RegisterFrame ==
    [][ /\ \A r \in Slots :
              RegisterSucceeds(r) =>
                  /\ \E row \in registrations' \ registrations :
                        /\ registrations' = registrations \cup {row}
                        /\ row.user = req[r].user
                        /\ row.event = req[r].event_id
                  /\ events' = events
                  /\ tokens' = tokens
                  /\ users' = users
                  /\ contact_messages' = contact_messages
        /\ registrations \subseteq registrations'
        /\ registrations' # registrations =>
              \E r \in Slots : RegisterSucceeds(r)
        /\ \A e \in DOMAIN events :
              RegistrationCount(registrations', e)
                  >= RegistrationCount(registrations, e)
      ]_vars

\* the user who held a registration for the second event registered for the
\* first one: both rows are stored
C27_Witness ==
    /\ req[1].kind = "register"
    /\ req[1].status = 201
    /\ req[1].user = 2
    /\ registrations = {[id |-> 1, user |-> 2, event |-> 2],
                        [id |-> 2, user |-> 2, event |-> 1]}

\* ---------------------------------------------------------------------------
\* an earlier logout, answered 200 before r started, presented the key r
\* presents
LoggedOutBefore(r) ==
    \E q \in req[r].after :
        /\ req[q].kind = "logout"
        /\ req[q].status = 200
        /\ StartsWith(req[r].header, Prefix)
        /\ PresentedKey(req[q].header) = PresentedKey(req[r].header)

\* C28: a logout that succeeds for key K leaves K absent from the token
\* store and the tokens of every other user unchanged, and every later
\* token-protected request presenting K is answered 401 (no login issues K
\* again).
C28_LogoutRevokes ==
    [][ \A r \in Slots :
          /\ req[r].pc = "logout_delete" /\ req'[r].status = 200 =>
                /\ PresentedKey(req[r].header) \notin {t.key : t \in tokens'}
                /\ \A t \in tokens : t.user # req[r].user => t \in tokens'
          /\ req[r].pc = "idle" /\ req'[r].kind \in {"logout", "register"}
             /\ LoggedOutBefore(r)' => req'[r].status = 401
          /\ req[r].pc = "create_insert" /\ req'[r].pc = "done" =>
                \A q \in Done :
                    req[q].kind = "logout" /\ req[q].status = 200 =>
                        req'[r].key # PresentedKey(req[q].header)
      ]_vars

\* ---------------------------------------------------------------------------
\* C29: the capacity check of Register agrees with the displayed
\* availability: a request that has passed require_token and found its
\* event is rejected with "Event is full." exactly when available_slots of
\* the event, computed on the state the check reads, is 0; an event without
\* capacity is never rejected for capacity, and an event of capacity 0
\* rejects every registration.
C29_CapacityAgreesWithSlots ==
    [][ \A r \in Slots :
          req[r].pc = "is_full" /\ req'[r].pc # "is_full" =>
              LET e == req[r].event_id
                  capacity == events[e].capacity
                  slots == available_slots(
                               capacity, RegistrationCount(registrations, e))
                  rejected == /\ req'[r].status = 400
                              /\ req'[r].detail = "Event is full."
              IN  /\ rejected <=> slots = <<0>>
                  /\ capacity = <<>> => ~rejected
                  /\ capacity = <<0>> => rejected
                  /\ ~rejected => req'[r].pc = "exists"
      ]_vars

\* an event of capacity 0 rejected a registration while it had none, and
\* the unlimited event accepted one
C29_Witness ==
    \E r \in Slots, q \in Slots :
        /\ req[r].kind = "register"
        /\ req[r].event_id = 1
        /\ req[r].detail = "Event is full."
        /\ events[1].capacity = <<0>>
        /\ RegistrationCount(registrations, 1) = 0
        /\ req[q].event_id = 2
        /\ req[q].status = 201

\* ---------------------------------------------------------------------------
\* the accounts register_user_view has created
Created == {u \in users : u \notin InitUsers}

\* C30: after any sequence of POST /auth/register/ requests, two concurrent
\* ones included, no two accounts created by the endpoint share a username
\* and no two share an email address.
C30_UniqueIdentity ==
    \A u \in Created, v \in Created :
        u # v => u.username # v.username /\ u.email # v.email

====
